---------------------------- MODULE Spec2Model ----------------------------
(***************************************************************************)
(* A model of kanna, a visual-novel runtime: the script engine of          *)
(* src/src/game.rs, the command effects of src/src/lib.rs, the stage and   *)
(* instances of src/src/character.rs, the animations of                    *)
(* src/src/animation.rs and the dialogue text of src/src/interface.rs.     *)
(*                                                                         *)
(* Conventions.                                                            *)
(*  - Option<T> is a sequence: None is << >> and Some(x) is << x >>.       *)
(*  - A Target is the 0-based index of the source; commands[t] of the      *)
(*    source is script.commands[t + 1] here.                               *)
(*  - An f32 is an extended rational [n, d]: d > 0 is the fraction n/d in  *)
(*    lowest terms, d = 0 is +inf (n = 1), -inf (n = -1) or NaN (n = 0).   *)
(*    Rounding and the sign of zero are not modelled.                      *)
(*  - A String is a sequence of characters; a character is a one-element   *)
(*    name whose UTF-8 width len_utf8 gives.                               *)
(***************************************************************************)
EXTENDS Integers, Sequences, FiniteSets, TLC

---------------------------------------------------------------------------
(* Option<T> *)

None == << >>

Some(x) == << x >>

is_some(o) == o # << >>

unwrap(o) == o[1]

---------------------------------------------------------------------------
(* f32 as extended rationals *)

RECURSIVE Gcd(_, _)
Gcd(a, b) == IF b = 0 THEN a ELSE Gcd(b, a % b)

AbsInt(n) == IF n < 0 THEN -n ELSE n

SignInt(n) == IF n < 0 THEN -1 ELSE IF n > 0 THEN 1 ELSE 0

Norm(n, d) ==
    IF d = 0 THEN [n |-> SignInt(n), d |-> 0]
    ELSE LET s == IF d < 0 THEN -1 ELSE 1
             g == Gcd(AbsInt(n), AbsInt(d))
         IN  [n |-> (s * n) \div g, d |-> (s * d) \div g]

R(i) == [n |-> i, d |-> 1]

Frac(a, b) == Norm(a, b)

NaN == [n |-> 0, d |-> 0]

IsNaN(x) == x.d = 0 /\ x.n = 0

FNeg(x) == [n |-> -x.n, d |-> x.d]

FAdd(x, y) ==
    IF IsNaN(x) \/ IsNaN(y) THEN NaN
    ELSE IF x.d = 0 /\ y.d = 0 THEN (IF x.n = y.n THEN x ELSE NaN)
    ELSE IF x.d = 0 THEN x
    ELSE IF y.d = 0 THEN y
    ELSE Norm(x.n * y.d + y.n * x.d, x.d * y.d)

FSub(x, y) == FAdd(x, FNeg(y))

FMul(x, y) == Norm(x.n * y.n, x.d * y.d)

recip(x) ==
    IF x.n < 0 THEN [n |-> -x.d, d |-> -x.n]
    ELSE [n |-> x.d, d |-> x.n]

FDiv(x, y) == FMul(x, recip(y))

FGt(x, y) ==
    /\ ~IsNaN(x)
    /\ ~IsNaN(y)
    /\ IF x.d = 0 /\ y.d = 0 THEN x.n > y.n ELSE x.n * y.d > y.n * x.d

FLe(x, y) == ~IsNaN(x) /\ ~IsNaN(y) /\ ~FGt(x, y)

FAbs(x) == [n |-> AbsInt(x.n), d |-> x.d]

---------------------------------------------------------------------------
(* Strings *)

TwoByteChars == {"e-acute"}

ThreeByteChars == {"hiragana-a"}

len_utf8(c) ==
    IF c \in TwoByteChars THEN 2 ELSE IF c \in ThreeByteChars THEN 3 ELSE 1

RECURSIVE str_len(_)
str_len(s) == IF s = << >> THEN 0 ELSE len_utf8(Head(s)) + str_len(Tail(s))

\* string[from..]: the characters left after the first `from` bytes
RECURSIVE str_from(_, _)
str_from(s, from) ==
    IF from = 0 \/ s = << >> THEN s
    ELSE str_from(Tail(s), from - len_utf8(Head(s)))

\* char_indices(): the byte index of every character of s
RECURSIVE char_indices_at(_, _)
char_indices_at(s, at) ==
    IF s = << >> THEN << >>
    ELSE << at >> \o char_indices_at(Tail(s), at + len_utf8(Head(s)))

char_indices(s) == char_indices_at(s, 0)

---------------------------------------------------------------------------
(* interface.rs: RenderText.  The colour and the TextBox geometry play no   *)
(* part in the engine's decisions and are left out.                         *)

RenderText_new(string) ==
    [string |-> string, slice |-> [start |-> 0, end |-> str_len(string)]]

RenderText_empty(string) ==
    [string |-> string, slice |-> [start |-> 0, end |-> 0]]

\* mutant: finish rewinds the reveal
RenderText_finish_rewinds(text) == [text EXCEPT !.slice.end = 0]

RenderText_finish(text) == [text EXCEPT !.slice.end = str_len(text.string)]

\* mutant: a step reveals one more byte
RenderText_step_byte(text) ==
    IF text.slice.end < str_len(text.string)
    THEN [text EXCEPT !.slice.end = @ + 1]
    ELSE RenderText_finish(text)

RenderText_step(text) ==
    LET indices == char_indices(str_from(text.string, text.slice.end))
    IN  IF Len(indices) >= 2
        THEN [text EXCEPT !.slice.end = @ + indices[2]]
        ELSE RenderText_finish(text)

is_finished(text) == text.slice.end = str_len(text.string)

\* the characters the slice [0, end) shows
RECURSIVE fragment_of(_, _)
fragment_of(s, bytes) ==
    IF s = << >> \/ bytes <= 0 THEN << >>
    ELSE << Head(s) >> \o fragment_of(Tail(s), bytes - len_utf8(Head(s)))

fragment(text) == fragment_of(text.string, text.slice.end)

---------------------------------------------------------------------------
(* animation.rs: the built-in animations.  update takes the frame's delta  *)
(* time in ms and yields the animation after the call, the parameters      *)
(* after the call and the AnimationState.                                  *)

Continue == "Continue"

Finished == "Finished"

Updated(animation, parameters, state) ==
    [animation |-> animation, parameters |-> parameters, state |-> state]

\* arguments.first().and_then(|period| *period).unwrap_or(default)
argument(arguments, index, default) ==
    IF Len(arguments) >= index /\ is_some(arguments[index])
    THEN unwrap(arguments[index]) ELSE default

default_glide_period == R(10000)

default_fade_period == R(250)

default_flip_period == R(100)

screen_width == R(640)

GlideMove(destination, time_period) ==
    [type |-> "GlideMove", destination |-> destination, time_period |-> time_period]

GlideMove_update(self, parameters, delta_time) ==
    LET time_left == FSub(self.time_period, delta_time)
    IN  IF FGt(self.time_period, R(0))
        THEN LET position_difference ==
                     << FSub(self.destination[1], parameters.position[1]),
                        FSub(self.destination[2], parameters.position[2]) >>
                 position_delta ==
                     << FMul(FDiv(position_difference[1], time_left), R(1000)),
                        FMul(FDiv(position_difference[2], time_left), R(1000)) >>
             IN  Updated([self EXCEPT !.time_period = time_left],
                         [parameters EXCEPT !.position =
                             << FAdd(parameters.position[1], position_delta[1]),
                                FAdd(parameters.position[2], position_delta[2]) >>],
                         Continue)
        ELSE Updated(self, parameters, Finished)

GlideMove_finish(self, parameters) ==
    [parameters EXCEPT !.position = self.destination]

Uninitialised(visible, time_period, direction) ==
    [type |-> "GlideVisibility", initialised |-> FALSE, visible |-> visible,
     time_period |-> time_period, direction |-> direction]

Initialised(visible, glide_move, position) ==
    [type |-> "GlideVisibility", initialised |-> TRUE, visible |-> visible,
     glide_move |-> glide_move, position |-> position]

\* 0 is Left, 1 is Right, and it is Left by default
glide_direction(arguments) ==
    IF argument(arguments, 2, R(0)) = R(1) THEN "Right" ELSE "Left"

off_screen_x(direction, parameter, images) ==
    LET width == R(images[parameter.image].width)
    IN  IF direction = "Left"
        THEN FNeg(FSub(width, parameter.centre_position[1]))
        ELSE FSub(FAdd(screen_width, width), parameter.centre_position[1])

\* GlideVisibility::initialise: the animation and the parameters after it
GlideVisibility_initialise(self, parameter, images) ==
    IF self.initialised THEN [animation |-> self, parameters |-> parameter]
    ELSE LET original_x == parameter.position[1]
             off_x == off_screen_x(self.direction, parameter, images)
             destination_x == IF self.visible THEN original_x ELSE off_x
             moved == IF self.visible
                      THEN [parameter EXCEPT !.position[1] = off_x]
                      ELSE parameter
         IN  [animation |->
                  Initialised(self.visible,
                              GlideMove(<< destination_x, moved.position[2] >>,
                                        self.time_period),
                              << original_x, moved.position[2] >>),
              parameters |-> moved]

GlideVisibility_update(self, parameter, delta_time, images) ==
    LET shown == [parameter EXCEPT !.visible = TRUE]
        init == GlideVisibility_initialise(self, shown, images)
        moved == GlideMove_update(init.animation.glide_move, init.parameters, delta_time)
    IN  Updated([init.animation EXCEPT !.glide_move = moved.animation],
                moved.parameters, moved.state)

GlideVisibility_finish(self, parameter) ==
    LET seen == [parameter EXCEPT !.visible = self.visible]
    IN  IF self.initialised THEN [seen EXCEPT !.position = self.position] ELSE seen

FadeVisibility(alpha, time_period, rate, visibility) ==
    [type |-> "FadeVisibility", alpha |-> alpha, time_period |-> time_period,
     rate |-> rate, visibility |-> visibility]

\* mutant: the time left is tested before the frame's time is taken off
FadeVisibility_update_late(self, parameter, delta_time) ==
    IF FGt(self.time_period, R(0))
    THEN LET alpha == FAdd(self.alpha, FMul(self.rate, delta_time))
         IN  Updated([self EXCEPT !.time_period = FSub(@, delta_time), !.alpha = alpha],
                     [parameter EXCEPT !.colour[4] = alpha, !.visible = TRUE],
                     Continue)
    ELSE Updated(self, parameter, Finished)

FadeVisibility_update(self, parameter, delta_time) ==
    LET time_period == FSub(self.time_period, delta_time)
    IN  IF FGt(time_period, R(0))
        THEN LET alpha == FAdd(self.alpha, FMul(self.rate, delta_time))
             IN  Updated([self EXCEPT !.time_period = time_period, !.alpha = alpha],
                         [parameter EXCEPT !.colour[4] = alpha, !.visible = TRUE],
                         Continue)
        ELSE Updated([self EXCEPT !.time_period = time_period], parameter, Finished)

FadeVisibility_finish(self, parameter) ==
    [parameter EXCEPT !.colour[4] = R(1), !.visible = self.visibility]

FlipChange(time_period, new_centre_position, new_image, new_scale) ==
    [type |-> "FlipChange", time_period |-> time_period, time_left |-> time_period,
     new_centre_position |-> new_centre_position, new_image |-> new_image,
     new_scale |-> new_scale, original_scale |-> None]

FlipChange_update(self, parameter, delta_time) ==
    LET s0 == IF is_some(self.original_scale) THEN self
              ELSE [self EXCEPT !.original_scale = Some(parameter.scale)]
        squeezed(s, p) ==
            Updated(s,
                    [p EXCEPT !.scale[1] =
                        FDiv(FMul(unwrap(s.original_scale)[1], FAbs(s.time_left)),
                             s.time_period)],
                    Continue)
    IN  IF FGt(s0.time_left, R(0))
        THEN LET s1 == [s0 EXCEPT !.time_left = FSub(@, delta_time)]
             IN  IF FLe(s1.time_left, R(0))
                 THEN squeezed([s1 EXCEPT !.original_scale = Some(s1.new_scale)],
                               [parameter EXCEPT !.image = s1.new_image,
                                                 !.centre_position = s1.new_centre_position])
                 ELSE squeezed(s1, parameter)
        ELSE IF FLe(s0.time_left, FNeg(s0.time_period))
        THEN Updated(s0, parameter, Finished)
        ELSE squeezed([s0 EXCEPT !.time_left = FSub(@, delta_time)], parameter)

FlipChange_finish(self, parameter) ==
    [parameter EXCEPT !.image = self.new_image,
                      !.centre_position = self.new_centre_position,
                      !.scale = self.new_scale]

\* dyn Animation<InstanceParameter>: dispatch on the animation's type
Animation_update(self, parameters, delta_time, images) ==
    CASE self.type = "GlideMove" -> GlideMove_update(self, parameters, delta_time)
      [] self.type = "GlideVisibility" ->
             GlideVisibility_update(self, parameters, delta_time, images)
      [] self.type = "FadeVisibility" -> FadeVisibility_update(self, parameters, delta_time)
      [] self.type = "FlipChange" -> FlipChange_update(self, parameters, delta_time)

Animation_finish(self, parameters) ==
    CASE self.type = "GlideMove" -> GlideMove_finish(self, parameters)
      [] self.type = "GlideVisibility" -> GlideVisibility_finish(self, parameters)
      [] self.type = "FadeVisibility" -> FadeVisibility_finish(self, parameters)
      [] self.type = "FlipChange" -> FlipChange_finish(self, parameters)

\* AnimationMap::default: the producers registered for each command
AnimationMap ==
    [change |-> {"flip"}, hide |-> {"fade", "glide"}, kill |-> {"fade", "glide"},
     position |-> {"glide"}, show |-> {"fade", "glide"}, spawn |-> {"fade", "glide"}]

Glide_position(destination, arguments) ==
    GlideMove(destination, argument(arguments, 1, default_glide_period))

Glide_show(arguments) ==
    Uninitialised(TRUE, argument(arguments, 1, default_glide_period),
                  glide_direction(arguments))

Glide_hide(arguments) ==
    Uninitialised(FALSE, argument(arguments, 1, default_glide_period),
                  glide_direction(arguments))

Glide_spawn(arguments) ==
    Uninitialised(TRUE, argument(arguments, 1, default_glide_period),
                  glide_direction(arguments))

Glide_kill(arguments) ==
    Uninitialised(TRUE, argument(arguments, 1, default_glide_period),
                  glide_direction(arguments))

Fade_show(arguments) ==
    LET time_period == argument(arguments, 1, default_fade_period)
    IN  FadeVisibility(R(0), time_period, recip(time_period), TRUE)

Fade_hide(arguments) ==
    LET time_period == argument(arguments, 1, default_fade_period)
    IN  FadeVisibility(R(1), time_period, FNeg(recip(time_period)), FALSE)

Fade_spawn(arguments) ==
    LET time_period == argument(arguments, 1, default_fade_period)
    IN  FadeVisibility(R(0), time_period, recip(time_period), TRUE)

Fade_kill(arguments) ==
    LET time_period == argument(arguments, 1, default_fade_period)
    IN  FadeVisibility(R(1), time_period, FNeg(recip(time_period)), FALSE)

\* mutant: the flip starts with no time left on its first phase
Flip_change_second_phase(change_animation) ==
    [FlipChange(argument(change_animation.arguments, 1, default_flip_period),
                change_animation.new_centre_position, change_animation.new_image,
                change_animation.new_scale)
        EXCEPT !.time_left = R(0)]

Flip_change(change_animation) ==
    FlipChange(argument(change_animation.arguments, 1, default_flip_period),
               change_animation.new_centre_position, change_animation.new_image,
               change_animation.new_scale)

---------------------------------------------------------------------------
(* character.rs: Instance and Stage.  An image handle is the path it was   *)
(* loaded from; script.images maps a loaded path to its pixel size.        *)

\* Characters::index and images.get(..) succeed: Instance::new does not panic
state_resolves(script, character, state) ==
    /\ character \in DOMAIN script.characters
    /\ state \in DOMAIN script.characters[character]
    /\ script.characters[character][state].image \in DOMAIN script.images

\* state.centre_position, or the pixel centre of the image
centre_of(script, character_state) ==
    IF is_some(character_state.centre_position)
    THEN << R(unwrap(character_state.centre_position)[1]),
            R(unwrap(character_state.centre_position)[2]) >>
    ELSE << Frac(script.images[character_state.image].width, 2),
            Frac(script.images[character_state.image].height, 2) >>

Instance_new(script, character, state, position) ==
    LET character_state == script.characters[character][state]
    IN  [animation |-> None,
         character |-> character,
         centre_position |-> centre_of(script, character_state),
         colour |-> << R(1), R(1), R(1), R(1) >>,
         image |-> character_state.image,
         position |-> position,
         scale |-> character_state.scale,
         visible |-> TRUE,
         tbk |-> FALSE]

create_parameter(self) ==
    [centre_position |-> self.centre_position,
     image |-> self.image,
     position |-> self.position,
     scale |-> self.scale,
     visible |-> self.visible,
     colour |-> self.colour]

update_with_parameter(self, parameters) ==
    [self EXCEPT !.centre_position = parameters.centre_position,
                 !.image = parameters.image,
                 !.position = parameters.position,
                 !.scale = parameters.scale,
                 !.visible = parameters.visible,
                 !.colour = parameters.colour]

\* mutant: an animation that reports Finished is dropped without finish
Instance_update_without_finish(self, delta_time, images) ==
    IF is_some(self.animation)
    THEN LET updated == Animation_update(unwrap(self.animation),
                                         create_parameter(self), delta_time, images)
         IN  update_with_parameter(
                 [self EXCEPT !.animation = IF updated.state = Continue
                                            THEN Some(updated.animation) ELSE None],
                 updated.parameters)
    ELSE self

Instance_update(self, delta_time, images) ==
    IF is_some(self.animation)
    THEN LET updated == Animation_update(unwrap(self.animation),
                                         create_parameter(self), delta_time, images)
         IN  IF updated.state = Continue
             THEN update_with_parameter(
                      [self EXCEPT !.animation = Some(updated.animation)],
                      updated.parameters)
             ELSE update_with_parameter(
                      [self EXCEPT !.animation = None],
                      Animation_finish(updated.animation, updated.parameters))
    ELSE self

\* mutant: the outgoing animation is dropped without being finished
add_animation_without_finish(self, animation) ==
    [self EXCEPT !.animation = Some(animation)]

add_animation(self, animation) ==
    IF is_some(self.animation)
    THEN update_with_parameter(
             [self EXCEPT !.animation = Some(animation)],
             Animation_finish(unwrap(self.animation), create_parameter(self)))
    ELSE [self EXCEPT !.animation = Some(animation)]

Instance_finish_animation(self) ==
    IF is_some(self.animation)
    THEN update_with_parameter(
             [self EXCEPT !.animation = None],
             Animation_finish(unwrap(self.animation), create_parameter(self)))
    ELSE self

\* Stage(HashMap<InstanceName, Instance>): a function on the names present
Stage_default == << >>

Stage_update(stage, delta_time, images) ==
    [name \in DOMAIN stage |-> Instance_update(stage[name], delta_time, images)]

Stage_spawn(stage, name, instance) ==
    [n \in DOMAIN stage \cup {name} |-> IF n = name THEN instance ELSE stage[n]]

Stage_remove(stage, name) ==
    [n \in DOMAIN stage \ {name} |-> stage[n]]

\* mutant: advance leaves the stage as it is
Stage_finish_animation_skipped(stage) == stage

Stage_finish_animation(stage) ==
    [name \in {n \in DOMAIN stage : ~stage[n].tbk} |->
        Instance_finish_animation(stage[name])]

---------------------------------------------------------------------------
(* lib.rs: Command, Script, ScriptState, Render and Command::execute       *)

AnimationDeclaration(name, arguments) == [name |-> name, arguments |-> arguments]

Command_Change(instance, state, animation) ==
    [op |-> "Change", instance |-> instance, state |-> state, animation |-> animation]

Command_Dialogue(character, string) ==
    [op |-> "Dialogue", character |-> character, string |-> string]

Command_Diverge(branches) == [op |-> "Diverge", branches |-> branches]

Command_Show(instance, animation) ==
    [op |-> "Show", instance |-> instance, animation |-> animation]

Command_Hide(instance, animation) ==
    [op |-> "Hide", instance |-> instance, animation |-> animation]

Command_Position(instance, position, animation) ==
    [op |-> "Position", instance |-> instance, position |-> position,
     animation |-> animation]

Command_Kill(instance, animation) ==
    [op |-> "Kill", instance |-> instance, animation |-> animation]

Command_Spawn(character, state, position, instance_name, animation) ==
    [op |-> "Spawn", character |-> character, state |-> state, position |-> position,
     instance_name |-> instance_name, animation |-> animation]

Command_Stage(path) == [op |-> "Stage", path |-> path]

Command_Jump(label) == [op |-> "Jump", label |-> label]

Command_Music(path) == [op |-> "Music", path |-> path]

Command_Sound(path) == [op |-> "Sound", path |-> path]

Command_Pause == [op |-> "Pause"]

Command_If(flag, label) == [op |-> "If", flag |-> flag, label |-> label]

Command_Flag(flag) == [op |-> "Flag", flag |-> flag]

Command_Unflag(flag) == [op |-> "Unflag", flag |-> flag]

Target_default == 0

Target_next(target) == target + 1

History_default == [execution_count |-> 0, divergences |-> << >>]

ScriptState_default ==
    [target |-> Target_default, next_target |-> None, flags |-> {},
     music |-> None, sounds |-> << >>]

Render_default ==
    [background |-> None, stage |-> Stage_default, character |-> None,
     text |-> None, branches |-> << >>]

\* a panic: the process ends, the state is the one the panic left
\* mutant: an index out of bounds is ignored
Panic_ignored(g) == g

Panic(g) == [g EXCEPT !.status = "aborted"]

\* Index<&Target> for Script: commands[target], in range
in_range(script, target) == target < Len(script.commands)

command_at(script, target) == script.commands[target + 1]

\* an audio voice: Source::from_data(..) after set_volume, set_repeat and play
Source(path, repeat) == [path |-> path, repeat |-> repeat, playing |-> TRUE]

execute_Change(command, g, script) ==
    IF command.instance \notin DOMAIN g.render.stage THEN Panic(g)
    ELSE LET instance == g.render.stage[command.instance]
         IN  IF ~state_resolves(script, instance.character, command.state)
             THEN Panic(g)
             ELSE IF is_some(command.animation)
             THEN LET declaration == unwrap(command.animation)
                      character_state ==
                          script.characters[instance.character][command.state]
                      change_animation ==
                          [new_centre_position |-> centre_of(script, character_state),
                           new_image |-> character_state.image,
                           new_scale |-> character_state.scale,
                           arguments |-> declaration.arguments]
                  IN  IF declaration.name \notin AnimationMap.change THEN Panic(g)
                      ELSE [g EXCEPT !.render.stage[command.instance] =
                               add_animation(instance, Flip_change(change_animation))]
             ELSE [g EXCEPT !.render.stage[command.instance] =
                      Instance_new(script, instance.character, command.state,
                                   instance.position)]

execute_Dialogue(command, g) ==
    LET with_text == [g EXCEPT !.render.text = Some(RenderText_empty(command.string))]
    IN  IF is_some(command.character)
        THEN [with_text EXCEPT !.render.character =
                 Some(RenderText_new(unwrap(command.character)))]
        ELSE with_text

\* mutant: only the first branch gets a button
execute_Diverge_first_branch(command, g) ==
    [g EXCEPT !.render.branches =
        [i \in 1..1 |->
            [button |-> RenderText_new(command.branches[i].string),
             label |-> command.branches[i].label]]]

execute_Diverge(command, g) ==
    [g EXCEPT !.render.branches =
        [i \in 1..Len(command.branches) |->
            [button |-> RenderText_new(command.branches[i].string),
             label |-> command.branches[i].label]]]

show_producer(declaration) ==
    IF declaration.name = "fade" THEN Fade_show(declaration.arguments)
    ELSE Glide_show(declaration.arguments)

hide_producer(declaration) ==
    IF declaration.name = "fade" THEN Fade_hide(declaration.arguments)
    ELSE Glide_hide(declaration.arguments)

spawn_producer(declaration) ==
    IF declaration.name = "fade" THEN Fade_spawn(declaration.arguments)
    ELSE Glide_spawn(declaration.arguments)

kill_producer(declaration) ==
    IF declaration.name = "fade" THEN Fade_kill(declaration.arguments)
    ELSE Glide_kill(declaration.arguments)

execute_Show(command, g) ==
    IF is_some(command.animation)
    THEN IF \/ unwrap(command.animation).name \notin AnimationMap.show
            \/ command.instance \notin DOMAIN g.render.stage
         THEN Panic(g)
         ELSE [g EXCEPT !.render.stage[command.instance] =
                  add_animation(@, show_producer(unwrap(command.animation)))]
    ELSE IF command.instance \notin DOMAIN g.render.stage THEN Panic(g)
    ELSE [g EXCEPT !.render.stage[command.instance].visible = TRUE]

execute_Hide(command, g) ==
    IF is_some(command.animation)
    THEN IF \/ unwrap(command.animation).name \notin AnimationMap.hide
            \/ command.instance \notin DOMAIN g.render.stage
         THEN Panic(g)
         ELSE [g EXCEPT !.render.stage[command.instance] =
                  add_animation(@, hide_producer(unwrap(command.animation)))]
    ELSE IF command.instance \notin DOMAIN g.render.stage THEN Panic(g)
    ELSE [g EXCEPT !.render.stage[command.instance].visible = FALSE]

execute_Position(command, g) ==
    IF is_some(command.animation)
    THEN IF \/ unwrap(command.animation).name \notin AnimationMap.position
            \/ command.instance \notin DOMAIN g.render.stage
         THEN Panic(g)
         ELSE [g EXCEPT !.render.stage[command.instance] =
                  add_animation(@, Glide_position(command.position,
                                                  unwrap(command.animation).arguments))]
    ELSE IF command.instance \notin DOMAIN g.render.stage THEN Panic(g)
    ELSE [g EXCEPT !.render.stage[command.instance].position = command.position]

execute_Kill(command, g) ==
    IF is_some(command.animation)
    THEN IF \/ unwrap(command.animation).name \notin AnimationMap.kill
            \/ command.instance \notin DOMAIN g.render.stage
         THEN Panic(g)
         ELSE [g EXCEPT !.render.stage[command.instance] =
                  [add_animation(@, kill_producer(unwrap(command.animation)))
                      EXCEPT !.tbk = TRUE]]
    ELSE [g EXCEPT !.render.stage = Stage_remove(@, command.instance)]

execute_Spawn(command, g, script) ==
    IF ~state_resolves(script, command.character, command.state) THEN Panic(g)
    ELSE LET instance == Instance_new(script, command.character, command.state,
                                      command.position)
             instance_name == IF is_some(command.instance_name)
                              THEN unwrap(command.instance_name)
                              ELSE command.character
         IN  IF is_some(command.animation)
             THEN IF unwrap(command.animation).name \notin AnimationMap.spawn
                  THEN Panic([g EXCEPT !.render.stage =
                                 Stage_spawn(@, instance_name, instance)])
                  ELSE [g EXCEPT !.render.stage =
                           Stage_spawn(@, instance_name,
                               add_animation(instance,
                                   spawn_producer(unwrap(command.animation))))]
             ELSE [g EXCEPT !.render.stage = Stage_spawn(@, instance_name, instance)]

execute_Stage(command, g, script) ==
    IF command.path \notin DOMAIN script.images THEN Panic(g)
    ELSE [g EXCEPT !.render.background = Some(command.path)]

\* mutant: a Jump leaves the next target alone
execute_Jump_ignored(command, g, script) == g

execute_Jump(command, g, script) ==
    IF command.label \notin DOMAIN script.labels THEN Panic(g)
    ELSE [g EXCEPT !.state.next_target = Some(script.labels[command.label])]

execute_Music(command, g, script) ==
    IF command.path \notin script.audio THEN Panic(g)
    ELSE [g EXCEPT !.state.music = Some(Source(command.path, TRUE))]

execute_Sound(command, g, script) ==
    IF command.path \notin script.audio THEN Panic(g)
    ELSE [g EXCEPT !.state.music = Some(Source(command.path, FALSE))]

execute_Pause(command, g) == g

\* mutant: an If jumps whatever the flags
execute_If_unconditional(command, g, script) == execute_Jump(command, g, script)

execute_If(command, g, script) ==
    IF command.flag \in g.state.flags THEN execute_Jump(command, g, script) ELSE g

execute_Flag(command, g) == [g EXCEPT !.state.flags = @ \cup {command.flag}]

execute_Unflag(command, g) == [g EXCEPT !.state.flags = @ \ {command.flag}]

execute(command, g, script) ==
    CASE command.op = "Change" -> execute_Change(command, g, script)
      [] command.op = "Dialogue" -> execute_Dialogue(command, g)
      [] command.op = "Diverge" -> execute_Diverge(command, g)
      [] command.op = "Show" -> execute_Show(command, g)
      [] command.op = "Hide" -> execute_Hide(command, g)
      [] command.op = "Position" -> execute_Position(command, g)
      [] command.op = "Kill" -> execute_Kill(command, g)
      [] command.op = "Spawn" -> execute_Spawn(command, g, script)
      [] command.op = "Stage" -> execute_Stage(command, g, script)
      [] command.op = "Jump" -> execute_Jump(command, g, script)
      [] command.op = "Music" -> execute_Music(command, g, script)
      [] command.op = "Sound" -> execute_Sound(command, g, script)
      [] command.op = "Pause" -> execute_Pause(command, g)
      [] command.op = "If" -> execute_If(command, g, script)
      [] command.op = "Flag" -> execute_Flag(command, g)
      [] command.op = "Unflag" -> execute_Unflag(command, g)

---------------------------------------------------------------------------
(* game.rs: GameState.  A game is [history, state, render, status]; status *)
(* is "running", "aborted" after a panic, or "hung" when a run of          *)
(* non-breaking commands exceeds MaxRun.  advance, diverge and load also   *)
(* report what they executed: ran, the targets executed in order, and      *)
(* loops, the number of advance calls that entered the run loop.           *)

MaxRun == 12

GameState_new ==
    [history |-> History_default, state |-> ScriptState_default,
     render |-> Render_default, status |-> "running"]

\* mutant: a Pause does not stop the run
breaking_without_pause(command) == command.op \in {"Diverge", "Dialogue"}

\* mutant: only a Dialogue stops the run
breaking_dialogue_only(command) == command.op = "Dialogue"

breaking(command) == command.op \in {"Pause", "Diverge", "Dialogue"}

Outcome(g, ran, loops) == [game |-> g, ran |-> ran, loops |-> loops]

\* mutant: the cursor moves without counting the execution
move_cursor_uncounted(g) ==
    [g EXCEPT !.state.target = IF is_some(g.state.next_target)
                               THEN unwrap(g.state.next_target)
                               ELSE Target_next(g.state.target),
              !.state.next_target = None]

\* mutant: the pending target is read and left in place
move_cursor_keeps_next_target(g) ==
    [g EXCEPT !.history.execution_count = @ + 1,
              !.state.target = IF is_some(g.state.next_target)
                               THEN unwrap(g.state.next_target)
                               ELSE Target_next(g.state.target)]

\* lines 45-47: count the execution, then take next_target or step by one
move_cursor(g) ==
    [g EXCEPT !.history.execution_count = @ + 1,
              !.state.target = IF is_some(g.state.next_target)
                               THEN unwrap(g.state.next_target)
                               ELSE Target_next(g.state.target),
              !.state.next_target = None]

\* the loop of advance, lines 44-59
RECURSIVE run_loop(_, _, _, _)
run_loop(g, script, ran, fuel) ==
    IF fuel = 0 THEN Outcome([g EXCEPT !.status = "hung"], ran, 1)
    ELSE LET moved == move_cursor(g)
             target == moved.state.target
         IN  IF ~in_range(script, target) THEN Outcome(Panic(moved), ran, 1)
             ELSE LET command == command_at(script, target)
                      executed == execute(command, moved, script)
                  IN  IF executed.status # "running" THEN Outcome(executed, ran, 1)
                      ELSE IF breaking(command)
                      THEN Outcome(executed, Append(ran, target), 1)
                      ELSE run_loop(executed, script, Append(ran, target), fuel - 1)

\* mutant: advance enters the run loop whatever the dialogue reveal
advance_without_reveal_check(g, script) ==
    run_loop([g EXCEPT !.render.stage = Stage_finish_animation(@)], script, << >>, MaxRun)

advance(g, script) ==
    LET finished == [g EXCEPT !.render.stage = Stage_finish_animation(@)]
    IN  IF is_some(finished.render.text) /\ ~is_finished(unwrap(finished.render.text))
        THEN Outcome([finished EXCEPT !.render.text =
                         Some(RenderText_finish(unwrap(@)))], << >>, 0)
        ELSE run_loop(finished, script, << >>, MaxRun)

\* mutant: the choice is not recorded
diverge_unrecorded(g, script, label) ==
    IF label \notin DOMAIN script.labels THEN Outcome(Panic(g), << >>, 0)
    ELSE advance([g EXCEPT !.state.next_target = Some(script.labels[label]),
                           !.render.branches = << >>],
                 script)

\* mutant: the branch buttons are not cleared
diverge_without_clear(g, script, label) ==
    IF label \notin DOMAIN script.labels THEN Outcome(Panic(g), << >>, 0)
    ELSE advance([g EXCEPT !.history.divergences = Append(@, label),
                           !.state.next_target = Some(script.labels[label])],
                 script)

diverge(g, script, label) ==
    IF label \notin DOMAIN script.labels THEN Outcome(Panic(g), << >>, 0)
    ELSE advance([g EXCEPT !.history.divergences = Append(@, label),
                           !.state.next_target = Some(script.labels[label]),
                           !.render.branches = << >>],
                 script)

\* mutant: the recorded divergences are not reversed before they are popped
Reverse_omitted(seq) == seq

Reverse(seq) == [i \in 1..Len(seq) |-> seq[Len(seq) + 1 - i]]

\* Vec::pop: the last element and the rest
pop(seq) == [value |-> seq[Len(seq)], rest |-> SubSeq(seq, 1, Len(seq) - 1)]

\* mutant: the replay goes on while the count has not passed the loaded one
RECURSIVE load_loop_overshoots(_, _, _, _, _, _)
load_loop_overshoots(g, script, execution_count, divergences, ran, loops) ==
    IF g.status # "running" THEN Outcome(g, ran, loops)
    ELSE IF ~(g.history.execution_count <= execution_count)
    THEN IF divergences = << >> THEN Outcome(g, ran, loops)
         ELSE Outcome(Panic(g), ran, loops)
    ELSE IF ~in_range(script, g.state.target) THEN Outcome(Panic(g), ran, loops)
    ELSE IF command_at(script, g.state.target).op = "Diverge"
    THEN IF divergences = << >> THEN Outcome(Panic(g), ran, loops)
         ELSE LET step == diverge(g, script, pop(divergences).value)
              IN  load_loop_overshoots(step.game, script, execution_count,
                                       pop(divergences).rest, ran \o step.ran,
                                       loops + step.loops)
    ELSE LET step == advance(g, script)
         IN  load_loop_overshoots(step.game, script, execution_count,
                                  divergences, ran \o step.ran,
                                  loops + step.loops)

\* the while loop of load, lines 28-34; divergences is load_history.divergences
RECURSIVE load_loop(_, _, _, _, _, _)
load_loop(g, script, execution_count, divergences, ran, loops) ==
    IF g.status # "running" THEN Outcome(g, ran, loops)
    ELSE IF ~(g.history.execution_count < execution_count)
    THEN IF divergences = << >> THEN Outcome(g, ran, loops)
         ELSE Outcome(Panic(g), ran, loops)
    ELSE IF ~in_range(script, g.state.target) THEN Outcome(Panic(g), ran, loops)
    ELSE IF command_at(script, g.state.target).op = "Diverge"
    THEN IF divergences = << >> THEN Outcome(Panic(g), ran, loops)
         ELSE LET step == diverge(g, script, pop(divergences).value)
              IN  load_loop(step.game, script, execution_count,
                            pop(divergences).rest, ran \o step.ran, loops + step.loops)
    ELSE LET step == advance(g, script)
         IN  load_loop(step.game, script, execution_count, divergences,
                       ran \o step.ran, loops + step.loops)

load(script, load_history) ==
    load_loop([GameState_new EXCEPT !.state.next_target = Some(Target_default)],
              script, load_history.execution_count,
              Reverse(load_history.divergences), << >>, 0)

\* mutant: a click that hits no button advances
mouse_button_down_event_miss_advances(g, script, hit) ==
    IF ~in_range(script, g.state.target) THEN Outcome(Panic(g), << >>, 0)
    ELSE IF command_at(script, g.state.target).op = "Diverge"
            /\ hit \in 1..Len(g.render.branches)
    THEN diverge(g, script, g.render.branches[hit].label)
    ELSE advance(g, script)

\* hit is the 1-based index of the first branch button whose rectangle holds
\* the transformed point, 0 when no button holds it
mouse_button_down_event(g, script, hit) ==
    IF ~in_range(script, g.state.target) THEN Outcome(Panic(g), << >>, 0)
    ELSE IF command_at(script, g.state.target).op = "Diverge"
    THEN IF hit \in 1..Len(g.render.branches)
         THEN diverge(g, script, g.render.branches[hit].label)
         ELSE Outcome(g, << >>, 0)
    ELSE advance(g, script)

RECURSIVE steps_of(_, _)
steps_of(text, steps) ==
    IF steps = 0 THEN text ELSE steps_of(RenderText_step(text), steps - 1)

\* steps is how often check_update_time(text_speed) holds in this frame,
\* delta_time the frame's timer::delta in ms
update(g, script, steps, delta_time) ==
    [g EXCEPT !.render.text = IF is_some(@) THEN Some(steps_of(unwrap(@), steps)) ELSE @,
              !.state.sounds = SelectSeq(@, LAMBDA source : source.playing),
              !.render.stage = Stage_update(@, delta_time, script.images)]

---------------------------------------------------------------------------
(* parser.rs, at the level of statements: a statement is a command or a    *)
(* label declaration; parse_command pushes the one and records the other.  *)

Label(label) == [op |-> "label", label |-> label]

Script_default ==
    [characters |-> << >>, commands |-> << >>, labels |-> << >>,
     images |-> << >>, audio |-> {}]

parse_command(statement, script) ==
    IF statement.op = "label"
    THEN [script EXCEPT !.labels =
             [l \in DOMAIN script.labels \cup {statement.label} |->
                 IF l = statement.label THEN Len(script.commands)
                 ELSE script.labels[l]]]
    ELSE [script EXCEPT !.commands = Append(@, statement)]

RECURSIVE parse_from(_, _)
parse_from(statements, script) ==
    IF statements = << >> THEN script
    ELSE parse_from(Tail(statements), parse_command(Head(statements), script))

parse(statements) == parse_from(statements, Script_default)

\* the image files the resource paths hold, with their pixel sizes
ImageFiles ==
    [path \in {"/happy.png", "/sad.png", "/bg.jpg"} |->
        CASE path = "/happy.png" -> [width |-> 200, height |-> 300]
          [] path = "/sad.png" -> [width |-> 100, height |-> 300]
          [] path = "/bg.jpg" -> [width |-> 640, height |-> 480]]

\* load_images: every character-state image and every Stage path
image_paths(script) ==
    {script.characters[c][st].image :
        c \in DOMAIN script.characters, st \in {"Happy", "Sad"}}
    \cup {script.commands[i].path :
            i \in {j \in 1..Len(script.commands) : script.commands[j].op = "Stage"}}

load_images(script) ==
    [script EXCEPT !.images = [path \in image_paths(script) |-> ImageFiles[path]]]

\* load_audio: every Music and Sound path
load_audio(script) ==
    [script EXCEPT !.audio =
        {script.commands[i].path :
            i \in {j \in 1..Len(script.commands) :
                      script.commands[j].op \in {"Music", "Sound"}}}]

load_resources(script) == load_audio(load_images(script))

\* the character set of the host (load_characters)
Characters ==
    [c \in {"C"} |->
        [st \in {"Happy", "Sad"} |->
            IF st = "Happy"
            THEN [image |-> "/happy.png", centre_position |-> None,
                  scale |-> << Frac(1, 2), Frac(1, 2) >>]
            ELSE [image |-> "/sad.png", centre_position |-> Some(<< 10, 20 >>),
                  scale |-> << R(1), R(1) >>]]]

\* what the host's script closure returns: parsed, with its resources loaded
host_script(statements) ==
    load_resources([parse(statements) EXCEPT !.characters = Characters])

---------------------------------------------------------------------------
(* lexer.rs: Lexer.  The source text is a sequence of characters and       *)
(* characters is the 1-based position of the next character, so a slice    *)
(* string[a..b] of the source is SubSeq(string, a, b - 1) here.  next      *)
(* yields the lexer after the call and the item: None at the end of the    *)
(* stream, Some(Ok(token)) or Some(Err(error)).  Only the lower-case       *)
(* spellings of inf, infinity, nan and of the exponent mark are modelled.  *)

Ok(value) == [ok |-> TRUE, value |-> value]

Err(error) == [ok |-> FALSE, error |-> error]

Token_Identifier(value) == [type |-> "Identifier", value |-> value]

Token_String(value) == [type |-> "String", value |-> value]

Token_Numeric(value) == [type |-> "Numeric", value |-> value]

Token ==
    [type \in {"ScopeOpen", "ScopeClose", "BracketOpen", "BracketClose",
               "SquareOpen", "SquareClose", "ListSeparator", "Underscore",
               "Terminator"} |-> [type |-> type]]

Expected(token) == [type |-> "Expected", token |-> token]

is_whitespace == {" ", "\t", "\n", "\r"}

is_digit == {"0", "1", "2", "3", "4", "5", "6", "7", "8", "9"}

is_ascii_punctuation ==
    {"!", "\"", "#", "$", "%", "&", "'", "(", ")", "*", "+", ",", "-", ".",
     "/", ":", ";", "<", "=", ">", "?", "@", "[", "\\", "]", "^", "_",
     "backtick",
     "{", "|", "}", "~"}

\* the value of an expression evaluated once: Only({body(x) : x \in {e}})
\* is body(e)
Only(S) == CHOOSE v \in S : TRUE

RECURSIVE replace(_, _, _)
replace(text, from, to) ==
    IF Len(text) < Len(from) THEN text
    ELSE IF SubSeq(text, 1, Len(from)) = from
         THEN to \o replace(SubSeq(text, Len(from) + 1, Len(text)), from, to)
         ELSE << Head(text) >> \o replace(Tail(text), from, to)

escape(text) ==
    replace(replace(text, << "\\", "n" >>, << "\n" >>),
            << "\\", "\"" >>, << "\"" >>)

digit_value(character) ==
    CHOOSE v \in 0..9 :
        character = << "0", "1", "2", "3", "4", "5", "6", "7", "8", "9" >>[v + 1]

RECURSIVE digits_value(_)
digits_value(digits) ==
    IF digits = << >> THEN 0
    ELSE Only({10 * digits_value(front) + digit_value(digit)
               : front \in {SubSeq(digits, 1, Len(digits) - 1)},
                 digit \in {digits[Len(digits)]}})

all_digits(text) == \A i \in 1..Len(text) : text[i] \in is_digit

RECURSIVE pow10(_)
pow10(n) == IF n = 0 THEN 1 ELSE 10 * pow10(n - 1)

find(text, character) ==
    LET at == {i \in 1..Len(text) : text[i] = character}
    IN  IF at = {} THEN None ELSE Some(CHOOSE i \in at : \A j \in at : i <= j)

parse_exponent(text) ==
    LET digits == IF text # << >> /\ Head(text) = "-" THEN Tail(text) ELSE text
    IN  IF digits = << >> \/ ~all_digits(digits) THEN None
        ELSE IF text[1] = "-" THEN Some(Frac(1, pow10(digits_value(digits))))
        ELSE Some(R(pow10(digits_value(digits))))

parse_decimal(text) ==
    LET dot == find(text, ".")
        whole == IF is_some(dot) THEN SubSeq(text, 1, unwrap(dot) - 1) ELSE text
        fraction ==
            IF is_some(dot) THEN SubSeq(text, unwrap(dot) + 1, Len(text))
            ELSE << >>
    IN  IF ~all_digits(whole) \/ ~all_digits(fraction)
           \/ Len(whole) + Len(fraction) = 0
        THEN None
        ELSE Some(Frac(digits_value(whole) * pow10(Len(fraction))
                           + digits_value(fraction),
                       pow10(Len(fraction))))

parse_f32(text) ==
    LET negative == text # << >> /\ Head(text) = "-"
        body == IF negative THEN Tail(text) ELSE text
        mark == find(body, "e")
        mantissa ==
            Only({parse_decimal(digits)
                  : digits \in {IF is_some(mark)
                                 THEN SubSeq(body, 1, unwrap(mark) - 1)
                                 ELSE body}})
        exponent ==
            IF is_some(mark)
            THEN Only({parse_exponent(digits)
                       : digits \in {SubSeq(body, unwrap(mark) + 1, Len(body))}})
            ELSE Some(R(1))
        magnitude ==
            IF body \in {<< "i", "n", "f" >>,
                         << "i", "n", "f", "i", "n", "i", "t", "y" >>}
            THEN Some([n |-> 1, d |-> 0])
            ELSE IF body = << "n", "a", "n" >> THEN Some(NaN)
            ELSE IF is_some(mantissa) /\ is_some(exponent)
                 THEN Some(FMul(unwrap(mantissa), unwrap(exponent)))
                 ELSE None
    IN  IF magnitude = None THEN None
        ELSE IF negative THEN Some(FNeg(unwrap(magnitude)))
        ELSE magnitude

Lexer_new(string) ==
    [string |-> string, characters |-> 1, indentation |-> 0,
     target_indent |-> 0, new_line |-> TRUE]

peek(self) ==
    IF self.characters <= Len(self.string)
    THEN Some(self.string[self.characters]) ELSE None

skip(self) ==
    [self EXCEPT !.characters =
        IF @ <= Len(self.string) THEN @ + 1 ELSE @]

Yield(self, item) == [lexer |-> self, item |-> item]

RECURSIVE leading_tabs(_)
leading_tabs(self) ==
    IF peek(self) = Some("\t")
    THEN Only({1 + leading_tabs(taken) : taken \in {skip(self)}})
    ELSE 0

\* mutant: a line of TABs only sets the depth too
line_indent_of_blank(self, tabs) == tabs

line_indent(self, tabs) ==
    IF peek(self) = None \/ peek(self) = Some("\n") THEN self.target_indent
    ELSE tabs

exhausted_always(self) == TRUE

exhausted(self) == self.target_indent = 0

RECURSIVE lex_string(_, _)
lex_string(self, start) ==
    LET character == peek(self)
    IN  IF character = Some("\"")
        THEN Yield(skip(self),
                   Some(Ok(Token_String(
                       escape(SubSeq(self.string, start + 1,
                                     self.characters - 1))))))
        ELSE IF character = Some("\\")
        THEN Only({lex_string(taken, start) : taken \in {skip(skip(self))}})
        ELSE IF character = None \/ character = Some("\n")
             THEN Yield(self, Some(Err("UnmatchedQuote")))
             ELSE Only({lex_string(taken, start) : taken \in {skip(self)}})

RECURSIVE word_end(_)
word_end(self) ==
    LET character == peek(self)
    IN  IF character = None THEN self
        ELSE IF unwrap(character) \in is_whitespace
                \/ unwrap(character) \in is_ascii_punctuation \ {"-", "."}
             THEN self
             ELSE Only({word_end(taken) : taken \in {skip(self)}})

lex_word(self, start) ==
    Only({
      Only({
        IF self.string[start] = "-" \/ self.string[start] \in is_digit
        THEN Only({
               IF is_some(numeric)
               THEN Yield(ended, Some(Ok(Token_Numeric(unwrap(numeric)))))
               ELSE Yield(ended, Some(Err("InvalidNumeric")))
               : numeric \in {parse_f32(string)}})
        ELSE Yield(ended, Some(Ok(Token_Identifier(string))))
        : string \in {SubSeq(self.string, start, ended.characters - 1)}})
      : ended \in {word_end(self)}})

RECURSIVE Lexer_next(_)
Lexer_next(self) ==
    IF self.indentation < self.target_indent
    THEN Yield([self EXCEPT !.indentation = @ + 1], Some(Ok(Token.ScopeOpen)))
    ELSE IF self.indentation > self.target_indent
    THEN Yield([self EXCEPT !.indentation = @ - 1], Some(Ok(Token.ScopeClose)))
    ELSE IF self.new_line
    THEN Only({
           Only({
             Lexer_next([line EXCEPT !.target_indent = line_indent(line, tabs)])
             : line \in {[self EXCEPT !.new_line = FALSE,
                                      !.characters = @ + tabs]}})
           : tabs \in {leading_tabs(self)}})
    ELSE IF peek(self) = None
    THEN IF exhausted(self) THEN Yield(self, None)
         ELSE Only({Lexer_next(ended)
                    : ended \in {[self EXCEPT !.target_indent = 0]}})
    ELSE Only({
         LET start == self.characters
             character == self.string[start]
         IN  CASE character = "(" -> Yield(taken, Some(Ok(Token.BracketOpen)))
               [] character = ")" -> Yield(taken, Some(Ok(Token.BracketClose)))
               [] character = "," -> Yield(taken, Some(Ok(Token.ListSeparator)))
               [] character = "\n" ->
                    Yield([taken EXCEPT !.new_line = TRUE],
                          Some(Ok(Token.Terminator)))
               [] character = "\"" -> lex_string(taken, start)
               [] OTHER ->
                    IF character \in is_whitespace THEN Lexer_next(taken)
                    ELSE lex_word(taken, start)
         : taken \in {skip(self)}})

Lexer_token(self) ==
    Only({
      [lexer |-> next.lexer,
       result |-> IF next.item = None THEN Ok(None)
                  ELSE IF unwrap(next.item).ok
                       THEN Ok(Some(unwrap(next.item).value))
                       ELSE unwrap(next.item)]
      : next \in {Lexer_next(self)}})

ExpectToken(self, type, error) ==
    Only({
      [lexer |-> next.lexer,
       result |-> IF ~next.result.ok THEN next.result
                  ELSE IF is_some(next.result.value)
                          /\ unwrap(next.result.value).type = type
                       THEN Ok(unwrap(next.result.value).value)
                       ELSE Err(error)]
      : next \in {Lexer_token(self)}})

Lexer_identifier(self) == ExpectToken(self, "Identifier", "ExpectedIdentifier")

Lexer_string(self) == ExpectToken(self, "String", "ExpectedString")

Lexer_numeric(self) == ExpectToken(self, "Numeric", "ExpectedNumeric")

Lexer_expect(self, token) ==
    Only({
      [lexer |-> next.lexer,
       result |-> IF ~next.result.ok THEN next.result
                  ELSE IF next.result.value = Some(token) THEN Ok(TRUE)
                  ELSE Err(Expected(token))]
      : next \in {Lexer_token(self)}})

RECURSIVE Lexer_skip_take(_, _)
Lexer_skip_take(self, target) ==
    Only({
      IF next.item = None \/ next.item = Some(Ok(target)) THEN next.lexer
      ELSE Lexer_skip_take(next.lexer, target)
      : next \in {Lexer_next(self)}})

---------------------------------------------------------------------------
(* The scripts explored *)

Hello == << "H", "e", "l", "l", "o", "." >>

Goodbye == << "G", "o", "o", "d", "b", "y", "e", "." >>

Choose == << "C", "h", "o", "o", "s", "e", "." >>

WentLeft == << "Y", "o", "u", " ", "w", "e", "n", "t", " ", "l", "e", "f", "t", "." >>

WentRight == << "Y", "o", "u", " ", "w", "e", "n", "t", " ", "r", "i", "g", "h", "t", "." >>

Done == << "D", "o", "n", "e", "." >>

Accented == << "e-acute", "hiragana-a", "!" >>

Branch(string, label) == [string |-> string, label |-> label]

Anim(name, arguments) == Some(AnimationDeclaration(name, arguments))

\* Scenario A of the specification
ScenarioA ==
    << Command_Dialogue(Some(<< "A", "l", "i", "c", "e" >>), Hello),
       Command_Dialogue(None, Goodbye) >>

\* Scenario B of the specification
ScenarioB ==
    << Command_Dialogue(None, Choose),
       Command_Diverge(<< Branch(<< "L", "e", "f", "t" >>, "l-left"),
                          Branch(<< "R", "i", "g", "h", "t" >>, "l-right") >>),
       Label("l-left"),
       Command_Dialogue(None, WentLeft),
       Command_Jump("end"),
       Label("l-right"),
       Command_Dialogue(None, WentRight),
       Label("end"),
       Command_Dialogue(None, Done) >>

\* every stage command, with and without an animation
Staged ==
    << Command_Stage("/bg.jpg"),
       Command_Spawn("C", "Happy", << R(0), R(0) >>, None, Anim("fade", << Some(R(100)) >>)),
       Command_Dialogue(Some(<< "C" >>), << "H", "i" >>),
       Command_Position("C", << R(100), R(0) >>, Anim("glide", << Some(R(100)) >>)),
       Command_Hide("C", Anim("fade", << Some(R(100)) >>)),
       Command_Pause,
       Command_Show("C", Anim("glide", << Some(R(100)), Some(R(1)) >>)),
       Command_Music("/music.ogg"),
       Command_Dialogue(None, Accented),
       Command_Change("C", "Sad", Anim("flip", << Some(R(50)) >>)),
       Command_Sound("/sound.ogg"),
       Command_Pause,
       Command_Kill("C", Anim("fade", << None >>)),
       Command_Spawn("C", "Sad", << R(5), R(5) >>, Some("D"), None),
       Command_Position("D", << R(1), R(1) >>, None),
       Command_Hide("D", None),
       Command_Dialogue(Some(<< "D" >>), << "B", "y", "e" >>),
       Command_Show("D", None),
       Command_Change("D", "Happy", None),
       Command_Kill("D", None),
       Command_Pause >>

\* a Diverge reached from a Diverge, and flags
Nested ==
    << Command_Dialogue(Some(<< "N" >>), << "Q" >>),
       Command_Diverge(<< Branch(<< "A" >>, "a"), Branch(<< "B" >>, "b") >>),
       Label("a"),
       Command_Diverge(<< Branch(<< "C" >>, "b"), Branch(<< "D" >>, "c") >>),
       Label("b"),
       Command_Flag("f"),
       Label("c"),
       Command_If("f", "d"),
       Command_Dialogue(None, << "n", "o" >>),
       Command_Jump("e"),
       Label("d"),
       Command_Unflag("f"),
       Command_Dialogue(None, << "y", "e", "s" >>),
       Label("e"),
       Command_Pause >>

\* a script that starts with a Diverge
DivergeFirst ==
    << Command_Diverge(<< Branch(<< "X" >>, "x"), Branch(<< "Y" >>, "y") >>),
       Label("x"),
       Command_Dialogue(None, << "x" >>),
       Label("y"),
       Command_Pause >>

\* a story that returns to its start
Looping ==
    << Label("top"),
       Command_Dialogue(Some(<< "L" >>), << "a" >>),
       Command_Dialogue(None, << >>),
       Command_Jump("top") >>

\* breaking commands only, a Pause among them
Paused ==
    << Command_Dialogue(None, << "p" >>),
       Command_Pause,
       Command_Dialogue(Some(<< "P" >>), << "q" >>) >>

\* flags set, cleared and tested
Flagged ==
    << Command_Flag("f"),
       Command_Flag("g"),
       Command_Unflag("f"),
       Command_If("f", "t"),
       Command_Dialogue(None, << "u" >>),
       Command_If("g", "t"),
       Command_Dialogue(None, << "v" >>),
       Label("t"),
       Command_Pause >>

\* a jump to a label that is declared nowhere, behind a dialogue
Dangling ==
    << Command_Dialogue(None, << "d" >>),
       Command_Jump("nowhere"),
       Command_Dialogue(None, << "e" >>) >>

\* Change without an animation on a hidden instance and on one that is
\* being killed
Restyled ==
    << Command_Spawn("C", "Happy", << R(0), R(0) >>, None, None),
       Command_Hide("C", None),
       Command_Dialogue(None, << "a" >>),
       Command_Change("C", "Sad", None),
       Command_Dialogue(None, << "b" >>),
       Command_Kill("C", Anim("fade", << Some(R(100)) >>)),
       Command_Change("C", "Happy", None),
       Command_Dialogue(None, << "c" >>),
       Command_Pause >>

Scripts ==
    {host_script(statements) :
        statements \in {ScenarioA, ScenarioB, Staged, Nested, DivergeFirst,
                        Looping, Paused, Flagged, Dangling, Restyled}}

---------------------------------------------------------------------------
(* parser.rs over the lexer: parse_command reads one directive from the    *)
(* lexer and pushes its command; a parsing function yields the lexer after *)
(* the call, the script after it where it has one, and the Result.  A      *)
(* failure carries the error and the token parse skips to.                 *)

Word ==
    [change |-> << "c", "h", "a", "n", "g", "e" >>,
     diverge |-> << "d", "i", "v", "e", "r", "g", "e" >>,
     label |-> << "l", "a", "b", "e", "l" >>,
     position |-> << "p", "o", "s", "i", "t", "i", "o", "n" >>,
     spawn |-> << "s", "p", "a", "w", "n" >>,
     if |-> << "i", "f" >>,
     pause |-> << "p", "a", "u", "s", "e" >>,
     flag |-> << "f", "l", "a", "g" >>,
     unflag |-> << "u", "n", "f", "l", "a", "g" >>,
     kill |-> << "k", "i", "l", "l" >>,
     show |-> << "s", "h", "o", "w" >>,
     hide |-> << "h", "i", "d", "e" >>,
     stage |-> << "s", "t", "a", "g", "e" >>,
     jump |-> << "j", "u", "m", "p" >>,
     music |-> << "m", "u", "s", "i", "c" >>,
     sound |-> << "s", "o", "u", "n", "d" >>,
     with |-> << "w", "i", "t", "h" >>,
     glide |-> << "g", "l", "i", "d", "e" >>,
     fade |-> << "f", "a", "d", "e" >>]

Failure(error, target) == [ok |-> FALSE, error |-> error, target |-> target]

inline(result) ==
    IF result.ok THEN result ELSE Failure(result.error, Token.Terminator)

Step(step) == [lexer |-> step.lexer, result |-> inline(step.result)]

Parsed(lexer, script, result) ==
    [lexer |-> lexer, script |-> script, result |-> result]

Abort(step, script) == Parsed(step.lexer, script, inline(step.result))

push(script, command) == [script EXCEPT !.commands = Append(@, command)]

Parser_position(lexer) ==
    Only({
      IF ~open.result.ok THEN Step(open) ELSE
      Only({
        IF ~position_x.result.ok THEN Step(position_x) ELSE
        Only({
          IF ~separator.result.ok THEN Step(separator) ELSE
          Only({
            IF ~position_y.result.ok THEN Step(position_y) ELSE
            Only({
              IF ~close.result.ok THEN Step(close)
              ELSE [lexer |-> close.lexer,
                    result |-> Ok(<< position_x.result.value,
                                     position_y.result.value >>)]
              : close \in {Lexer_expect(position_y.lexer,
                                        Token.BracketClose)}})
            : position_y \in {Lexer_numeric(separator.lexer)}})
          : separator \in {Lexer_expect(position_x.lexer,
                                        Token.ListSeparator)}})
        : position_x \in {Lexer_numeric(open.lexer)}})
      : open \in {Lexer_expect(lexer, Token.BracketOpen)}})

RECURSIVE animation_arguments(_, _)
animation_arguments(lexer, arguments) ==
    Only({
      IF ~next.result.ok THEN Step(next)
      ELSE IF next.result.value \in {None, Some(Token.SquareClose)}
      THEN [lexer |-> next.lexer, result |-> Ok(arguments)]
      ELSE
      Only({
        IF ~separator.result.ok THEN Step(separator)
        ELSE IF next.result.value = Some(Token.Underscore)
        THEN animation_arguments(separator.lexer, Append(arguments, None))
        ELSE IF unwrap(next.result.value).type = "Numeric"
        THEN animation_arguments(
                 separator.lexer,
                 Append(arguments, Some(unwrap(next.result.value).value)))
        ELSE [lexer |-> separator.lexer,
              result |-> Failure("UnexpectedToken",
                                 unwrap(next.result.value))]
        : separator \in
            {IF arguments # << >>
             THEN Lexer_expect(next.lexer, Token.ListSeparator)
             ELSE [lexer |-> next.lexer, result |-> Ok(TRUE)]}})
      : next \in {Lexer_token(lexer)}})

animation_declaration(lexer) ==
    Only({
      IF ~name.result.ok THEN Step(name) ELSE
      Only({
        IF ~open.result.ok THEN Step(open) ELSE
        Only({
          IF ~arguments.result.ok THEN arguments
          ELSE [lexer |-> arguments.lexer,
                result |-> Ok(Some(AnimationDeclaration(
                                       name.result.value,
                                       arguments.result.value)))]
          : arguments \in {animation_arguments(open.lexer, << >>)}})
        : open \in {Lexer_expect(name.lexer, Token.SquareOpen)}})
      : name \in {Lexer_identifier(lexer)}})

Parser_animation(lexer, check_with) ==
    IF ~check_with THEN animation_declaration(lexer)
    ELSE
    Only({
      IF ~head.result.ok THEN Step(head)
      ELSE IF head.result.value \in {None, Some(Token.Terminator)}
      THEN [lexer |-> head.lexer, result |-> Ok(None)]
      ELSE IF head.result.value = Some(Token_Identifier(Word.with))
      THEN animation_declaration(head.lexer)
      ELSE [lexer |-> head.lexer,
            result |-> Failure("UnexpectedToken", unwrap(head.result.value))]
      : head \in {Lexer_token(lexer)}})

RECURSIVE Parser_parse_diverge(_, _, _)
Parser_parse_diverge(lexer, script, branches) ==
    Only({
      IF next.result = Ok(Some(Token.ScopeClose))
      THEN Parsed(next.lexer, push(script, Command_Diverge(branches)),
                  Ok(FALSE))
      ELSE IF next.result = Ok(Some(Token.Terminator))
      THEN Parser_parse_diverge(next.lexer, script, branches)
      ELSE IF ~(/\ next.result.ok
                /\ is_some(next.result.value)
                /\ unwrap(next.result.value).type = "String")
      THEN Parsed(next.lexer, script, Err("ExpectedString"))
      ELSE
      Only({
        IF ~identifier.result.ok
        THEN Parsed(identifier.lexer, script, identifier.result)
        ELSE
        Only({
          IF ~terminator.result.ok
          THEN Parsed(terminator.lexer, script, terminator.result)
          ELSE Parser_parse_diverge(
                   terminator.lexer, script,
                   Append(branches, Branch(unwrap(next.result.value).value,
                                           identifier.result.value)))
          : terminator \in {Lexer_expect(identifier.lexer,
                                         Token.Terminator)}})
        : identifier \in {Lexer_identifier(next.lexer)}})
      : next \in {Lexer_token(lexer)}})

command_diverge(lexer, script) ==
    Only({
      IF ~terminator.result.ok THEN Abort(terminator, script) ELSE
      Only({
        IF ~open.result.ok THEN Abort(open, script) ELSE
        Only({
          IF ~parsed.result.ok
          THEN Parsed(parsed.lexer, script,
                      Failure(parsed.result.error, Token.ScopeClose))
          ELSE parsed
          : parsed \in {Parser_parse_diverge(open.lexer, script, << >>)}})
        : open \in {Lexer_expect(terminator.lexer, Token.ScopeOpen)}})
      : terminator \in {Lexer_expect(lexer, Token.Terminator)}})

command_change(lexer, script) ==
    Only({
      IF ~instance.result.ok THEN Abort(instance, script) ELSE
      Only({
        IF ~state.result.ok THEN Abort(state, script) ELSE
        Only({
          IF ~animation.result.ok
          THEN Parsed(animation.lexer, script, animation.result)
          ELSE Parsed(animation.lexer,
                      push(script, Command_Change(instance.result.value,
                                                  state.result.value,
                                                  animation.result.value)),
                      Ok(FALSE))
          : animation \in {Parser_animation(state.lexer, TRUE)}})
        : state \in {Lexer_string(instance.lexer)}})
      : instance \in {Lexer_string(lexer)}})

command_label_following(lexer, script) ==
    Only({
      IF ~label.result.ok THEN Abort(label, script)
      ELSE Parsed(label.lexer,
                  [script EXCEPT !.labels =
                      [l \in DOMAIN script.labels \cup {label.result.value}
                          |-> IF l = label.result.value
                              THEN Len(script.commands) + 1
                              ELSE script.labels[l]]],
                  Ok(FALSE))
      : label \in {Lexer_identifier(lexer)}})

command_label(lexer, script) ==
    Only({
      IF ~label.result.ok THEN Abort(label, script)
      ELSE Parsed(label.lexer,
                  [script EXCEPT !.labels =
                      [l \in DOMAIN script.labels \cup {label.result.value}
                          |-> IF l = label.result.value
                              THEN Len(script.commands)
                              ELSE script.labels[l]]],
                  Ok(FALSE))
      : label \in {Lexer_identifier(lexer)}})

command_position(lexer, script) ==
    Only({
      IF ~instance.result.ok THEN Abort(instance, script) ELSE
      Only({
        IF ~position.result.ok
        THEN Parsed(position.lexer, script, position.result) ELSE
        Only({
          IF ~animation.result.ok
          THEN Parsed(animation.lexer, script, animation.result)
          ELSE Parsed(animation.lexer,
                      push(script, Command_Position(instance.result.value,
                                                    position.result.value,
                                                    animation.result.value)),
                      Ok(FALSE))
          : animation \in {Parser_animation(position.lexer, TRUE)}})
        : position \in {Parser_position(instance.lexer)}})
      : instance \in {Lexer_string(lexer)}})

command_spawn(lexer, script) ==
    Only({
      IF ~character.result.ok THEN Abort(character, script) ELSE
      Only({
        IF ~state.result.ok THEN Abort(state, script) ELSE
        Only({
          IF ~position.result.ok
          THEN Parsed(position.lexer, script, position.result) ELSE
          Only({
            IF ~next.result.ok THEN Abort(next, script)
            ELSE IF /\ next.result.value
                           \notin {None, Some(Token.Terminator),
                                   Some(Token_Identifier(Word.with))}
                    /\ unwrap(next.result.value).type # "String"
            THEN Parsed(next.lexer, script,
                        Failure("UnexpectedToken", Token.Terminator))
            ELSE
            Only({
              IF ~animation.result.ok
              THEN Parsed(animation.lexer, script, animation.result)
              ELSE Parsed(
                     animation.lexer,
                     push(script,
                          Command_Spawn(
                            character.result.value, state.result.value,
                            position.result.value,
                            IF next.result.value
                                 \in {None, Some(Token.Terminator),
                                      Some(Token_Identifier(Word.with))}
                            THEN None
                            ELSE Some(unwrap(next.result.value).value),
                            animation.result.value)),
                     Ok(FALSE))
              : animation \in
                  {IF next.result.value \in {None, Some(Token.Terminator)}
                   THEN [lexer |-> next.lexer, result |-> Ok(None)]
                   ELSE Parser_animation(
                            next.lexer,
                            next.result.value
                                # Some(Token_Identifier(Word.with)))}})
            : next \in {Lexer_token(position.lexer)}})
          : position \in {Parser_position(state.lexer)}})
        : state \in {Lexer_string(character.lexer)}})
      : character \in {Lexer_string(lexer)}})

command_if(lexer, script) ==
    Only({
      IF ~flag.result.ok THEN Abort(flag, script) ELSE
      Only({
        IF ~label.result.ok THEN Abort(label, script)
        ELSE Parsed(label.lexer,
                    push(script, Command_If(flag.result.value,
                                            label.result.value)),
                    Ok(FALSE))
        : label \in {Lexer_identifier(flag.lexer)}})
      : flag \in {Lexer_identifier(lexer)}})

command_of(word, value) ==
    CASE word = Word.flag -> Command_Flag(value)
      [] word = Word.unflag -> Command_Unflag(value)
      [] word = Word.jump -> Command_Jump(value)
      [] word = Word.stage -> Command_Stage(value)
      [] word = Word.music -> Command_Music(value)
      [] word = Word.sound -> Command_Sound(value)
      [] word = Word.kill -> Command_Kill(value, None)
      [] word = Word.show -> Command_Show(value, None)
      [] word = Word.hide -> Command_Hide(value, None)

command_identifier(lexer, script, word) ==
    Only({
      IF ~identifier.result.ok THEN Abort(identifier, script)
      ELSE Parsed(identifier.lexer,
                  push(script, command_of(word, identifier.result.value)),
                  Ok(FALSE))
      : identifier \in {Lexer_identifier(lexer)}})

command_string(lexer, script, word) ==
    Only({
      IF ~path.result.ok THEN Abort(path, script)
      ELSE Parsed(path.lexer,
                  push(script, command_of(word, path.result.value)),
                  Ok(FALSE))
      : path \in {Lexer_string(lexer)}})

command_instance(lexer, script, word) ==
    Only({
      IF ~instance.result.ok THEN Abort(instance, script) ELSE
      Only({
        IF ~animation.result.ok
        THEN Parsed(animation.lexer, script, animation.result)
        ELSE Parsed(animation.lexer,
                    push(script,
                         [command_of(word, instance.result.value)
                             EXCEPT !.animation = animation.result.value]),
                    Ok(FALSE))
        : animation \in {Parser_animation(instance.lexer, TRUE)}})
      : instance \in {Lexer_string(lexer)}})

command_dialogue(lexer, script, string) ==
    Only({
      IF ~next.result.ok THEN Abort(next, script)
      ELSE IF next.result.value = Some(Token.Terminator)
      THEN Parsed(next.lexer, push(script, Command_Dialogue(None, string)),
                  Ok(FALSE))
      ELSE IF ~(/\ is_some(next.result.value)
                /\ unwrap(next.result.value).type = "String")
      THEN Parsed(next.lexer, script,
                  Failure(Expected(Token.Terminator), Token.Terminator))
      ELSE
      Only({
        Parsed(terminator.lexer,
               push(script,
                    Command_Dialogue(Some(string),
                                     unwrap(next.result.value).value)),
               IF terminator.result.ok THEN Ok(FALSE)
               ELSE inline(terminator.result))
        : terminator \in {Lexer_expect(next.lexer, Token.Terminator)}})
      : next \in {Lexer_token(lexer)}})

command_named(lexer, script, word) ==
    CASE word = Word.change -> command_change(lexer, script)
      [] word = Word.diverge -> command_diverge(lexer, script)
      [] word = Word.label -> command_label(lexer, script)
      [] word = Word.position -> command_position(lexer, script)
      [] word = Word.spawn -> command_spawn(lexer, script)
      [] word = Word.if -> command_if(lexer, script)
      [] word = Word.pause ->
           Parsed(lexer, push(script, Command_Pause), Ok(FALSE))
      [] word \in {Word.flag, Word.unflag, Word.jump} ->
           command_identifier(lexer, script, word)
      [] word \in {Word.kill, Word.show, Word.hide} ->
           command_instance(lexer, script, word)
      [] word \in {Word.stage, Word.music, Word.sound} ->
           command_string(lexer, script, word)
      [] OTHER ->
           Parsed(lexer, script, Failure("InvalidCommand", Token.Terminator))

Parser_parse_command(lexer, script) ==
    Only({
      IF ~initial.result.ok THEN Abort(initial, script)
      ELSE IF initial.result.value = None
      THEN Parsed(initial.lexer, script, Ok(TRUE))
      ELSE IF initial.result.value = Some(Token.Terminator)
      THEN Parsed(initial.lexer, script, Ok(FALSE))
      ELSE IF unwrap(initial.result.value).type = "Identifier"
      THEN command_named(initial.lexer, script,
                         unwrap(initial.result.value).value)
      ELSE IF unwrap(initial.result.value).type = "String"
      THEN command_dialogue(initial.lexer, script,
                            unwrap(initial.result.value).value)
      ELSE IF initial.result.value = Some(Token.ScopeOpen)
      THEN Parsed(initial.lexer, script,
                  Failure("UnexpectedToken", Token.ScopeClose))
      ELSE Parsed(initial.lexer, script,
                  Failure("UnexpectedToken", Token.Terminator))
      : initial \in {Lexer_token(lexer)}})

RECURSIVE Parser_parse(_, _, _)
Parser_parse(lexer, script, errors) ==
    Only({
      IF ~command.result.ok
      THEN Parser_parse(Lexer_skip_take(command.lexer, command.result.target),
                        command.script, Append(errors, command.result.error))
      ELSE IF ~command.result.value
      THEN Parser_parse(command.lexer, command.script, errors)
      ELSE IF errors = << >> THEN Ok(command.script)
      ELSE Err(errors)
      : command \in {Parser_parse_command(lexer, script)}})

---------------------------------------------------------------------------
(* The engine as a state machine: the host boots it (run), then mouse      *)
(* clicks, frames and reloads arrive in any order.                         *)

VARIABLES
    script,   \* GameState.script: the Script the host returned
    game,     \* GameState.{history, state, render}, and whether it aborted
    obs,      \* history variable: what this engine has executed since start
    last      \* history variable: the last event handled and what it ran

vars == << script, game, obs, last >>

MaxExec == 24

MaxSteps == 2

DeltaTimes == {R(50), R(100)}

Event(event, hit, outcome) ==
    [event |-> event, hit |-> hit, ran |-> outcome.ran, loops |-> outcome.loops]

NoRun(g) == Outcome(g, << >>, 0)

\* run: the script closure, then GameState::load with the history it returned
Init ==
    /\ script \in Scripts
    /\ LET booted == load(script, History_default)
       IN  /\ game = booted.game
           /\ obs = [trace |-> booted.ran, loops |-> booted.loops]
           /\ last = Event("boot", 0, booted)

Click ==
    /\ game.status = "running"
    /\ game.history.execution_count < MaxExec
    /\ \E hit \in 0..Len(game.render.branches) :
          LET outcome == mouse_button_down_event(game, script, hit)
          IN  /\ game' = outcome.game
              /\ obs' = [trace |-> obs.trace \o outcome.ran,
                         loops |-> obs.loops + outcome.loops]
              /\ last' = Event("click", hit, outcome)
    /\ UNCHANGED script

Frame ==
    /\ game.status = "running"
    /\ \E steps \in 0..MaxSteps, delta_time \in DeltaTimes :
          /\ game' = update(game, script, steps, delta_time)
          /\ last' = Event("update", 0, NoRun(game'))
    /\ UNCHANGED << script, obs >>

\* Ctrl+R in developer mode, or quit and start again: save_history, then run
Reload ==
    /\ game.status = "running"
    /\ LET reloaded == load(script, game.history)
       IN  /\ game' = reloaded.game
           /\ obs' = [trace |-> reloaded.ran, loops |-> reloaded.loops]
           /\ last' = Event("reload", 0, reloaded)
    /\ UNCHANGED script

Next == Click \/ Frame \/ Reload

Spec == Init /\ [][Next]_vars

---------------------------------------------------------------------------
(* The stage under animation: a character is on the stage, a command       *)
(* attaches an animation to it, and frames, advances (which finish the     *)
(* stage's animations first) and one further animated command arrive in    *)
(* any order.  Here obs records the command that attached the animation,   *)
(* the stage right after it and the time ticked since; last records the    *)
(* event and the stage before it.                                          *)

MaxTicks == 5

MaxAttach == 1

\* the frame times timer::delta yields, in ms
TickTimes == {25, 50, 100}

Spawned == Command_Spawn("C", "Happy", << R(0), R(0) >>, None, None)

\* the commands that lead to an instance "C" with an animation just attached
Trials ==
    { << Spawned,
         Command_Position("C", << R(100), R(0) >>, Anim("glide", << Some(R(100)) >>)) >>,
      << Spawned, Command_Hide("C", Anim("fade", << Some(R(100)) >>)) >>,
      << Spawned, Command_Hide("C", Anim("glide", << Some(R(100)), Some(R(1)) >>)) >>,
      << Spawned, Command_Hide("C", None),
         Command_Show("C", Anim("fade", << Some(R(100)) >>)) >>,
      << Spawned, Command_Hide("C", None),
         Command_Show("C", Anim("glide", << Some(R(50)) >>)) >>,
      << Spawned, Command_Change("C", "Sad", Anim("flip", << Some(R(50)) >>)) >>,
      << Command_Spawn("C", "Happy", << R(0), R(0) >>, None,
                       Anim("fade", << Some(R(100)) >>)) >>,
      << Command_Spawn("C", "Sad", << R(10), R(0) >>, None,
                       Anim("glide", << Some(R(50)) >>)) >>,
      << Spawned, Command_Kill("C", Anim("fade", << Some(R(100)) >>)) >>,
      << Spawned, Command_Kill("C", Anim("glide", << Some(R(50)) >>)) >> }

\* the animated commands that may follow while the animation runs
FollowUps ==
    { Command_Position("C", << R(7), R(7) >>, Anim("glide", << Some(R(50)) >>)),
      Command_Hide("C", Anim("fade", << Some(R(50)) >>)),
      Command_Show("C", Anim("fade", << Some(R(50)) >>)),
      Command_Change("C", "Sad", Anim("flip", << Some(R(50)) >>)) }

\* the commands of one run, executed in order
RECURSIVE perform(_, _, _)
perform(commands, g, scr) ==
    IF commands = << >> THEN g
    ELSE perform(Tail(commands), execute(Head(commands), g, scr), scr)

Attached(command, stage, attaches, ticks) ==
    [command |-> command, attached |-> stage, elapsed |-> 0,
     cancelled |-> FALSE, attaches |-> attaches, ticks |-> ticks]

StageEvent(event, before, delta_time) ==
    [event |-> event, before |-> before, delta_time |-> delta_time]

AnimationInit ==
    /\ script = host_script(<< >>)
    /\ \E trial \in Trials :
          /\ game = perform(trial, GameState_new, script)
          /\ obs = Attached(trial[Len(trial)], game.render.stage, 0, 0)
          /\ last = StageEvent("attach",
                        perform(SubSeq(trial, 1, Len(trial) - 1),
                                GameState_new, script).render.stage, 0)

\* a frame: EventHandler::update with the frame's delta time
Tick ==
    /\ game.status = "running"
    /\ obs.ticks < MaxTicks
    /\ \E delta_time \in TickTimes :
          /\ game' = update(game, script, 0, R(delta_time))
          /\ obs' = [obs EXCEPT !.elapsed = @ + delta_time, !.ticks = @ + 1]
          /\ last' = StageEvent("tick", game.render.stage, delta_time)
    /\ UNCHANGED script

\* the first step of an advance: the animations of the stage are finished
FinishEarly ==
    /\ game.status = "running"
    /\ game' = [game EXCEPT !.render.stage = Stage_finish_animation(@)]
    /\ obs' = [obs EXCEPT !.cancelled = TRUE]
    /\ last' = StageEvent("finish", game.render.stage, 0)
    /\ UNCHANGED script

\* a further animated command is executed on the instance
Attach ==
    /\ game.status = "running"
    /\ obs.attaches < MaxAttach
    /\ "C" \in DOMAIN game.render.stage
    /\ \E command \in FollowUps :
          /\ game' = execute(command, game, script)
          /\ obs' = Attached(command, game'.render.stage, obs.attaches + 1, obs.ticks)
          /\ last' = StageEvent("attach", game.render.stage, 0)
    /\ UNCHANGED script

AnimationNext == Tick \/ FinishEarly \/ Attach

AnimationSpec == AnimationInit /\ [][AnimationNext]_vars

---------------------------------------------------------------------------
(* The reveal of a dialogue: a Dialogue installs its text with nothing     *)
(* revealed and frames step it.  Here obs records the text and the number  *)
(* of steps taken, last the steps of the last frame.                       *)

MaxLen == 3

MaxReveal == 5

Alphabet == {"a", "e-acute", "hiragana-a"}

Strings == UNION {[1..n -> Alphabet] : n \in 0..MaxLen}

TextInit ==
    /\ script = host_script(<< >>)
    /\ \E string \in Strings :
          /\ game = execute_Dialogue(Command_Dialogue(None, string), GameState_new)
          /\ obs = [string |-> string, steps |-> 0]
          /\ last = [event |-> "dialogue", steps |-> 0]

\* a frame in which check_update_time(text_speed) holds `steps` times
Reveal ==
    /\ obs.steps < MaxReveal
    /\ \E steps \in 1..MaxSteps :
          /\ game' = update(game, script, steps, R(50))
          /\ obs' = [obs EXCEPT !.steps = @ + steps]
          /\ last' = [event |-> "update", steps |-> steps]
    /\ UNCHANGED script

TextNext == Reveal

TextSpec == TextInit /\ [][TextNext]_vars

---------------------------------------------------------------------------
(* The lexer as a state machine: the host hands it a source text and pulls *)
(* its items one by one until the stream ends.  Here obs holds the lexer   *)
(* and the items pulled so far, last the last pull; the engine is idle.    *)

MaxSource == 5

LexAlphabet == {"\t", "\n", "\"", "a", "1"}

LexSources == UNION {[1..n -> LexAlphabet] : n \in 0..MaxSource}

\* string literals: an opening quote, then quotes, backslashes, the letter
\* n and newlines
EscapeAlphabet == {"\"", "\\", "n", "\n"}

EscapeSources ==
    {<< "\"" >> \o rest
        : rest \in UNION {[1..n -> EscapeAlphabet] : n \in 0..MaxSource - 1}}

LexInit ==
    /\ script = Script_default
    /\ game = GameState_new
    /\ \E string \in LexSources \cup EscapeSources :
           obs = [lexer |-> Lexer_new(string), tokens |-> << >>]
    /\ last = [event |-> "new", item |-> None]

Lex ==
    /\ last.event # "end"
    /\ \E next \in {Lexer_next(obs.lexer)} :
           /\ obs' = [lexer |-> next.lexer, tokens |-> obs.tokens \o next.item]
           /\ last' = [event |-> IF next.item = None THEN "end" ELSE "token",
                       item |-> next.item]
    /\ UNCHANGED << script, game >>

LexNext == Lex

LexSpec == LexInit /\ [][LexNext]_vars

---------------------------------------------------------------------------
(* The parser as a state machine: parse builds a lexer over the source     *)
(* text and calls parse_command until the input ends, skipping to the      *)
(* failure's token after an error.  Here script is the Script under        *)
(* construction, obs holds the lexer and the errors collected, last the    *)
(* outcome of the last call; the engine is idle.                           *)

Directives ==
    {<< "p", "o", "s", "i", "t", "i", "o", "n", " ", "\"", "C", "\"", " ",
        "(", "1", "0", "0", ",", "0", ")" >>,
     << "s", "h", "o", "w", " ", "\"", "C", "\"" >>,
     << "h", "i", "d", "e", " ", "\"", "C", "\"" >>,
     << "k", "i", "l", "l", " ", "\"", "C", "\"" >>,
     << "c", "h", "a", "n", "g", "e", " ", "\"", "C", "\"", " ", "\"", "S",
        "a", "d", "\"" >>,
     << "s", "p", "a", "w", "n", " ", "\"", "C", "\"", " ", "\"", "H", "a",
        "p", "p", "y", "\"", " ", "(", "0", ",", "0", ")" >>,
     << "s", "p", "a", "w", "n", " ", "\"", "C", "\"", " ", "\"", "H", "a",
        "p", "p", "y", "\"", " ", "(", "0", ",", "0", ")", " ", "\"", "D",
        "\"" >>}

Declared(text, name, arguments) ==
    [text |-> text, name |-> name, arguments |-> arguments]

Declarations ==
    {Declared(<< " ", "w", "i", "t", "h", " ", "g", "l", "i", "d", "e", "[", "1", "0", "0", "0", "]" >>,
              Word.glide, << Some(R(1000)) >>),
     Declared(<< " ", "w", "i", "t", "h", " ", "g", "l", "i", "d", "e", "[", "1", "0", "0", "0", ",", " ", "1", "]" >>,
              Word.glide, << Some(R(1000)), Some(R(1)) >>),
     Declared(<< " ", "w", "i", "t", "h", " ", "g", "l", "i", "d", "e", "[", "1", "0", "0", "0", ",", "1", "]" >>,
              Word.glide, << Some(R(1000)), Some(R(1)) >>),
     Declared(<< " ", "w", "i", "t", "h", " ", "g", "l", "i", "d", "e", "[", "_", ",", " ", "1", "]" >>,
              Word.glide, << None, Some(R(1)) >>),
     Declared(<< " ", "w", "i", "t", "h", " ", "f", "a", "d", "e", "[", "]" >>,
              Word.fade, << >>),
     Declared(<< " ", "w", "i", "t", "h", " ", "f", "a", "d", "e", "[", "_", "]" >>,
              Word.fade, << None >>)}

Endings ==
    {<< >>, << "\n" >>, << "\n", "\"", "H", "i", ".", "\"", "\n" >>}

Text_ScenarioA ==
    << "\"", "A", "l", "i", "c", "e", "\"", " ", "\"", "H", "e", "l", "l",
       "o", ".", "\"", "\n", "\"", "G", "o", "o", "d", "b", "y", "e", ".",
       "\"", "\n" >>

Text_ScenarioB ==
    << "\"", "C", "h", "o", "o", "s", "e", ".", "\"", "\n", "d", "i", "v",
       "e", "r", "g", "e", "\n", "\t", "\"", "L", "e", "f", "t", "\"", " ",
       " ", "l", "-", "l", "e", "f", "t", "\n", "\t", "\"", "R", "i", "g",
       "h", "t", "\"", " ", "l", "-", "r", "i", "g", "h", "t", "\n", "l",
       "a", "b", "e", "l", " ", "l", "-", "l", "e", "f", "t", "\n", "\"",
       "Y", "o", "u", " ", "w", "e", "n", "t", " ", "l", "e", "f", "t",
       ".", "\"", "\n", "j", "u", "m", "p", " ", "e", "n", "d", "\n", "l",
       "a", "b", "e", "l", " ", "l", "-", "r", "i", "g", "h", "t", "\n",
       "\"", "Y", "o", "u", " ", "w", "e", "n", "t", " ", "r", "i", "g",
       "h", "t", ".", "\"", "\n", "l", "a", "b", "e", "l", " ", "e", "n",
       "d", "\n", "\"", "D", "o", "n", "e", ".", "\"", "\n" >>

Text_ScenarioF ==
    << "s", "t", "a", "g", "e", " ", "\"", "b", "g", ".", "j", "p", "g",
       "\"", "\n", "f", "n", "o", "r", "d", "\n", "\"", "H", "i", ".",
       "\"", "\n" >>

\* sources of several statements, one per line: a dialogue, an unknown
\* keyword, a jump without its label, a jump, a label, a stage, a show
\* followed by a stray string, an unmatched quote and an indented dialogue
MaxLines == 3

Lines ==
    {<< "\"", "H", "i", ".", "\"", "\n" >>,
     << "f", "n", "o", "r", "d", "\n" >>,
     << "j", "u", "m", "p", "\n" >>,
     << "j", "u", "m", "p", " ", "a", "\n" >>,
     << "l", "a", "b", "e", "l", " ", "a", "\n" >>,
     << "s", "t", "a", "g", "e", " ", "\"", "b", "g", ".", "j", "p", "g",
        "\"", "\n" >>,
     << "s", "h", "o", "w", " ", "\"", "C", "\"", " ", "\"", "x", "\"", "\n" >>,
     << "\"", "x", "\n" >>,
     << "\t", "\"", "H", "i", ".", "\"", "\n" >>}

RECURSIVE Joined(_)
Joined(lines) ==
    IF lines = << >> THEN << >> ELSE Head(lines) \o Joined(Tail(lines))

\* the lines of a source, each with its newline
RECURSIVE SourceLines(_)
SourceLines(string) ==
    IF string = << >> THEN << >>
    ELSE Only({<< SubSeq(string, 1, n) >>
                   \o SourceLines(SubSeq(string, n + 1, Len(string)))
               : n \in {CHOOSE n \in 1..Len(string) :
                            /\ string[n] = "\n" \/ n = Len(string)
                            /\ \A m \in 1..(n - 1) : string[m] # "\n"}})

LineSources ==
    {Joined(lines) : lines \in UNION {[1..n -> Lines] : n \in 0..MaxLines}}

\* a label declared twice, with a command after each declaration
Text_Labels ==
    << "l", "a", "b", "e", "l", " ", "a", "\n", "\"", "x", "\"", "\n",
       "l", "a", "b", "e", "l", " ", "a", "\n", "\"", "y", "\"", "\n",
       "j", "u", "m", "p", " ", "a", "\n" >>

\* lines of whitespace only: empty, a TAB, a space, a TAB and a space
Blanks == {<< "\n" >>, << "\t", "\n" >>, << " ", "\n" >>, << "\t", " ", "\n" >>}

\* the text with one such line inserted before, between or after its lines
Blanked(text) ==
    {Joined(SubSeq(SourceLines(text), 1, k) \o << blank >>
            \o SubSeq(SourceLines(text), k + 1, Len(SourceLines(text))))
        : k \in 0..Len(SourceLines(text)), blank \in Blanks}

ParseSources ==
    {head \o tail \o ending :
        head \in Directives,
        tail \in {<< >>} \cup {declared.text : declared \in Declarations},
        ending \in Endings}
    \cup {Text_ScenarioA, Text_ScenarioB, Text_ScenarioF, Text_Labels}
    \cup LineSources \cup LexSources
    \cup Blanked(Text_ScenarioA) \cup Blanked(Text_ScenarioB)

ParseInit ==
    /\ script = Script_default
    /\ game = GameState_new
    /\ \E string \in ParseSources :
           obs = [lexer |-> Lexer_new(string), errors |-> << >>]
    /\ last = [event |-> "new"]

ParseCommand_unbroken ==
    /\ last.event # "end"
    /\ \E command \in {Parser_parse_command(obs.lexer, script)} :
           /\ script' = command.script
           /\ IF command.result.ok
              THEN /\ obs' = [obs EXCEPT !.lexer = command.lexer]
                   /\ last' = [event |-> "command"]
              ELSE /\ obs' = [lexer |-> Lexer_skip_take(command.lexer,
                                                        command.result.target),
                              errors |-> Append(obs.errors,
                                                command.result.error)]
                   /\ last' = [event |-> "error"]
    /\ UNCHANGED game

ParseCommand ==
    /\ last.event # "end"
    /\ \E command \in {Parser_parse_command(obs.lexer, script)} :
           /\ script' = command.script
           /\ IF command.result.ok
              THEN /\ obs' = [obs EXCEPT !.lexer = command.lexer]
                   /\ last' = [event |-> IF command.result.value THEN "end"
                                         ELSE "command"]
              ELSE /\ obs' = [lexer |-> Lexer_skip_take(command.lexer,
                                                        command.result.target),
                              errors |-> Append(obs.errors,
                                                command.result.error)]
                   /\ last' = [event |-> "error"]
    /\ UNCHANGED game

ParseNext == ParseCommand

ParseSpec == ParseInit /\ [][ParseNext]_vars

\* parse is a sequential loop: while it has not returned, its next call of
\* parse_command is made
ParseLiveSpec == ParseSpec /\ WF_vars(ParseNext)

---------------------------------------------------------------------------
(* Properties of the engine *)

Running == game.status = "running"

IsBreaking(command) == command.op \in {"Dialogue", "Diverge", "Pause"}

\* the command under the cursor has been executed (it is not the cursor of
\* a freshly booted engine)
Executed == obs.trace # << >> /\ in_range(script, game.state.target)

Current == command_at(script, game.state.target)

Revealing ==
    /\ Running
    /\ is_some(game.render.text)
    /\ ~is_finished(unwrap(game.render.text))

\* C1: an advance during an unfinished reveal finishes the stage animations,
\* completes the reveal and does nothing else: no command is executed, and
\* the history, the cursor and the pending jump are unchanged.
C1_AdvanceOnlyCompletesReveal ==
    Revealing =>
        LET outcome == advance(game, script)
            after == outcome.game
        IN  /\ outcome.ran = << >>
            /\ outcome.loops = 0
            /\ after.status = "running"
            /\ after.state.target = game.state.target
            /\ after.state.next_target = game.state.next_target
            /\ after.history.execution_count = game.history.execution_count
            /\ after.history.divergences = game.history.divergences
            /\ after.state = game.state
            /\ unwrap(after.render.text).string = unwrap(game.render.text).string
            /\ is_finished(unwrap(after.render.text))
            /\ after.render.character = game.render.character
            /\ after.render.branches = game.render.branches
            /\ after.render.background = game.render.background
            /\ \A name \in DOMAIN after.render.stage :
                  after.render.stage[name].animation = None

\* a click has just completed a reveal that frames had started
C1_Witness ==
    /\ Running
    /\ last.event = "click"
    /\ last.loops = 0
    /\ Executed
    /\ Current.op = "Dialogue"
    /\ Len(Current.string) > 1
    /\ is_finished(unwrap(game.render.text))

\* C2: a run of advance stops right after the first breaking command it
\* executes: the commands it executed before are non-breaking and the
\* command under the cursor when it returns is a Dialogue, Diverge or Pause.
C2_RunStopsAtFirstBreak ==
    (Running /\ last.event = "click" /\ last.loops > 0) =>
        /\ last.ran # << >>
        /\ last.ran[Len(last.ran)] = game.state.target
        /\ IsBreaking(Current)
        /\ \A i \in 1..(Len(last.ran) - 1) :
              ~IsBreaking(command_at(script, last.ran[i]))

\* a run that executed several non-breaking commands before it stopped
C2_Witness ==
    /\ Running
    /\ last.event = "click"
    /\ Len(last.ran) >= 4

\* C3: execution_count is the number of commands executed since start.
C3_CountIsCommandsExecuted ==
    Running => game.history.execution_count = Len(obs.trace)

\* runs of several commands and a branch choice have been counted
C3_Witness ==
    /\ Running
    /\ last.event = "click"
    /\ Len(obs.trace) >= 6
    /\ game.history.divergences # << >>

\* C4 as stated: execution_count is the number of advance calls that
\* entered the run loop.
C4_CountIsRunLoopEntries ==
    Running => game.history.execution_count = obs.loops

\* C4 amended: execution_count is at least the number of advance calls that
\* entered the run loop, and equals it exactly when every command executed
\* was a breaking one.
C4_CountAtLeastRunLoopEntries ==
    Running =>
        /\ game.history.execution_count >= obs.loops
        /\ (game.history.execution_count = obs.loops) <=>
               \A i \in 1..Len(obs.trace) :
                   IsBreaking(command_at(script, obs.trace[i]))

\* two calls entered the run loop and executed more than two commands
C4_Witness ==
    /\ Running
    /\ obs.loops >= 2
    /\ game.history.execution_count > obs.loops

\* what a resume has to reproduce of the engine, the stage apart; the
\* progress of the reveal is not part of it
View(g) ==
    [target |-> g.state.target,
     next_target |-> g.state.next_target,
     flags |-> g.state.flags,
     background |-> g.render.background,
     body |-> IF is_some(g.render.text) THEN Some(unwrap(g.render.text).string)
              ELSE None,
     speaker |-> g.render.character,
     branches |-> g.render.branches]

Resumed == load(script, game.history).game

\* C5 as stated: loading the script with the history of a live run
\* reproduces the live run's cursor, pending jump, flags, background,
\* dialogue body, speaker and branches, and the same instances are on the
\* stage.
C5_ResumeReproducesStage ==
    Running =>
        /\ Resumed.status = "running"
        /\ Resumed.history = game.history
        /\ View(Resumed) = View(game)
        /\ DOMAIN Resumed.render.stage = DOMAIN game.render.stage

\* C5 amended: loading the script with the history of a live run reproduces
\* the live run's cursor, pending jump, flags, background, dialogue body,
\* speaker and branches, and the two stages are the same once the
\* animations in flight are finished and the killed instances removed on
\* both sides.
C5_ResumeReproducesSettledStage ==
    Running =>
        /\ Resumed.status = "running"
        /\ Resumed.history = game.history
        /\ View(Resumed) = View(game)
        /\ Stage_finish_animation(Resumed.render.stage)
               = Stage_finish_animation(game.render.stage)

\* a live run that chose two branches in a row
C5_Witness ==
    /\ Running
    /\ last.event = "click"
    /\ Len(game.history.divergences) = 2
    /\ game.history.divergences[1] # game.history.divergences[2]

\* C6 as stated: booting with an empty history has executed command 0.
C6_BootExecutesFirstCommand ==
    last.event = "boot" =>
        /\ game.history.execution_count = 1
        /\ game.state.target = 0
        /\ game.state.next_target = None
        /\ obs.trace = << 0 >>

\* a click on a branch button has been handled and the engine runs on
Chose == last'.event = "click" /\ last'.hit > 0 /\ game'.status = "running"

Chosen == game.render.branches[last'.hit].label

\* C7 as stated: a choice appends its label, leaves the branches empty and
\* makes the label's command the next one executed.
C7_ChoiceLeavesNoBranches ==
    [][Chose =>
        /\ game'.history.divergences = Append(game.history.divergences, Chosen)
        /\ game'.render.branches = << >>
        /\ last'.ran # << >>
        /\ last'.ran[1] = script.labels[Chosen]]_vars

\* C7 amended: a choice appends its label and makes the label's command the
\* next one executed; the run continues to the next breaking command, and
\* the branches are empty afterwards unless that command is a Diverge,
\* whose branches they then are.
C7_ChoiceRunsFromLabel ==
    [][Chose =>
        /\ game'.history.divergences = Append(game.history.divergences, Chosen)
        /\ last'.ran # << >>
        /\ last'.ran[1] = script.labels[Chosen]
        /\ last'.ran[Len(last'.ran)] = game'.state.target
        /\ IsBreaking(command_at(script, game'.state.target))
        /\ LET stop == command_at(script, game'.state.target)
           IN  IF stop.op = "Diverge"
               THEN /\ Len(game'.render.branches) = Len(stop.branches)
                    /\ \A i \in 1..Len(stop.branches) :
                          game'.render.branches[i].label = stop.branches[i].label
               ELSE game'.render.branches = << >>]_vars

\* a choice whose run stopped at another Diverge
C7_Witness ==
    /\ Running
    /\ last.event = "click"
    /\ last.hit > 0
    /\ game.history.divergences # << >>
    /\ game.render.branches # << >>

PendingDiverge == Running /\ Executed /\ Current.op = "Diverge"

\* C8: while a Diverge is pending the branches are its branches, in script
\* order and with their labels, and a click that hits no button changes
\* nothing.
C8_PendingDivergeHoldsCursor ==
    PendingDiverge =>
        /\ Len(game.render.branches) = Len(Current.branches)
        /\ \A i \in 1..Len(Current.branches) :
              /\ game.render.branches[i].label = Current.branches[i].label
              /\ game.render.branches[i].button.string = Current.branches[i].string
        /\ LET outcome == mouse_button_down_event(game, script, 0)
           IN  /\ outcome.game = game
               /\ outcome.ran = << >>

\* a click has missed the buttons of a pending Diverge
C8_Witness ==
    /\ PendingDiverge
    /\ last.event = "click"
    /\ last.hit = 0
    /\ last.loops = 0
    /\ Len(game.render.branches) = 2

\* the bodies of the Dialogue commands executed, in order
Shown ==
    LET dialogues == SelectSeq(obs.trace,
                         LAMBDA t : command_at(script, t).op = "Dialogue")
    IN  [i \in 1..Len(dialogues) |-> command_at(script, dialogues[i]).string]

\* C9: in Scenario B, after Left is chosen the dialogues shown are
\* "Choose.", "You went left." and then "Done.", never "You went right.",
\* and when "Done." is shown execution_count is 5 and divergences is
\* [l-left].
C9_ScenarioBLeft ==
    (/\ script = host_script(ScenarioB)
     /\ Running
     /\ game.history.divergences # << >>
     /\ game.history.divergences[1] = "l-left") =>
        /\ Shown \in {<< Choose, WentLeft >>, << Choose, WentLeft, Done >>}
        /\ unwrap(game.render.text).string = Shown[Len(Shown)]
        /\ game.history.divergences = << "l-left" >>
        /\ Len(Shown) = 3 => game.history.execution_count = 5

\* "Done." is shown after Left was chosen
C9_Witness ==
    /\ script = host_script(ScenarioB)
    /\ Running
    /\ game.history.divergences = << "l-left" >>
    /\ unwrap(game.render.text).string = Done
    /\ last.event = "click"

\* C10 as stated: after a Dialogue the body is its text and the speaker box
\* shows its name, or is absent when it has none.
C10_SpeakerFollowsDialogue ==
    (Running /\ Executed /\ Current.op = "Dialogue") =>
        /\ unwrap(game.render.text).string = Current.string
        /\ (last.event = "click" /\ last.ran # << >>) =>
               unwrap(game.render.text).slice.end = 0
        /\ IF is_some(Current.character)
           THEN /\ is_some(game.render.character)
                /\ unwrap(game.render.character).string = unwrap(Current.character)
           ELSE game.render.character = None

\* the i-th command executed since start
Ran(i) == command_at(script, obs.trace[i])

\* C11: the command executed after a Jump is the one at the Jump's label,
\* the command executed after a command that sets no target is the one
\* that follows it in the script, and no pending target is left when the
\* engine waits for input.
C11_JumpTargetsUsedOnce ==
    /\ \A i \in 1..(Len(obs.trace) - 1) :
          /\ Ran(i).op = "Jump" =>
                 obs.trace[i + 1] = script.labels[Ran(i).label]
          /\ Ran(i).op \notin {"Jump", "If", "Diverge"} =>
                 obs.trace[i + 1] = obs.trace[i] + 1
    /\ (Running /\ obs.trace # << >>) => game.state.next_target = None

\* a Jump was followed by its label's command and then by the next one
C11_Witness ==
    \E i \in 1..(Len(obs.trace) - 2) :
        /\ Ran(i).op = "Jump"
        /\ obs.trace[i + 1] # obs.trace[i] + 1
        /\ obs.trace[i + 2] = obs.trace[i + 1] + 1

\* a Flag(F) was executed before the i-th command with no Unflag(F) between
FlagSetAt(F, i) ==
    \E j \in 1..(i - 1) :
        /\ Ran(j).op = "Flag"
        /\ Ran(j).flag = F
        /\ \A k \in (j + 1)..(i - 1) : ~(Ran(k).op = "Unflag" /\ Ran(k).flag = F)

FlagNames ==
    {script.commands[i].flag :
        i \in {j \in 1..Len(script.commands) :
                  script.commands[j].op \in {"Flag", "Unflag", "If"}}}

\* C12: the command executed after an If(F, L) is the one at L when F is
\* set and the following one otherwise; the flags set are those of the
\* Flag commands executed with no later Unflag, and Flag and Unflag change
\* nothing but the flags.
C12_IfJumpsWhenFlagSet ==
    /\ \A i \in 1..(Len(obs.trace) - 1) :
          Ran(i).op = "If" =>
              obs.trace[i + 1] = IF FlagSetAt(Ran(i).flag, i)
                                 THEN script.labels[Ran(i).label]
                                 ELSE obs.trace[i] + 1
    /\ game.state.flags = {F \in FlagNames : FlagSetAt(F, Len(obs.trace) + 1)}
    /\ \A F \in FlagNames :
          /\ [execute_Flag(Command_Flag(F), game)
                 EXCEPT !.state.flags = game.state.flags] = game
          /\ [execute_Unflag(Command_Unflag(F), game)
                 EXCEPT !.state.flags = game.state.flags] = game

\* an If on a cleared flag fell through and an If on a set flag jumped
C12_Witness ==
    \E i, j \in 1..(Len(obs.trace) - 1) :
        /\ Ran(i).op = "If"
        /\ Ran(j).op = "If"
        /\ \E k \in 1..(i - 1) : Ran(k).op = "Unflag" /\ Ran(k).flag = Ran(i).flag
        /\ obs.trace[i + 1] = obs.trace[i] + 1
        /\ obs.trace[j + 1] # obs.trace[j] + 1

\* C13 as stated: after a frame's update no instance marked to be killed is
\* on the stage without its animation: the update in which the kill
\* animation reports Finished removes the instance.
C13_FinishedKillRemoved ==
    last.event = "update" =>
        \A name \in DOMAIN game.render.stage :
            ~(game.render.stage[name].tbk
              /\ game.render.stage[name].animation = None)

\* the instance the stage commands act on
Actor == game.render.stage["C"]

OnStage == game.status = "running" /\ "C" \in DOMAIN game.render.stage

\* the duration the command's animation was given, in ms
Duration(command) == unwrap(unwrap(command.animation).arguments[1])

\* the time an animation still has to run
TimeLeft(animation) ==
    CASE animation.type = "GlideMove" -> animation.time_period
      [] animation.type = "FadeVisibility" -> animation.time_period
      [] animation.type = "FlipChange" -> animation.time_left
      [] animation.type = "GlideVisibility" ->
             IF animation.initialised THEN animation.glide_move.time_period
             ELSE animation.time_period

\* the instance is in the terminal state of the animation
Terminal(animation, instance) ==
    CASE animation.type = "GlideMove" -> instance.position = animation.destination
      [] animation.type = "FadeVisibility" ->
             instance.visible = animation.visibility /\ instance.colour[4] = R(1)
      [] animation.type = "GlideVisibility" -> instance.visible = animation.visible
      [] animation.type = "FlipChange" ->
             /\ instance.image = animation.new_image
             /\ instance.centre_position = animation.new_centre_position
             /\ instance.scale = animation.new_scale

Replaced ==
    /\ OnStage
    /\ last.event = "attach"
    /\ "C" \in DOMAIN last.before
    /\ is_some(last.before["C"].animation)

\* C14: an instance has at most one animation, and after a command has
\* attached an animation to an instance that had one, the instance is in
\* the terminal state of the outgoing animation and carries the new
\* animation only, not yet updated.
C14_ReplacedAnimationFinished ==
    /\ \A name \in DOMAIN game.render.stage :
          Len(game.render.stage[name].animation) <= 1
    /\ Replaced =>
          /\ Terminal(unwrap(last.before["C"].animation), Actor)
          /\ is_some(Actor.animation)
          /\ unwrap(Actor.animation).type =
                 CASE obs.command.op = "Position" -> "GlideMove"
                   [] obs.command.op = "Change" -> "FlipChange"
                   [] OTHER -> "FadeVisibility"
          /\ TimeLeft(unwrap(Actor.animation)) = Duration(obs.command)

\* a glide under way was replaced before it reached its destination
C14_Witness ==
    /\ Replaced
    /\ unwrap(last.before["C"].animation).type = "GlideMove"
    /\ last.before["C"].position # unwrap(last.before["C"].animation).destination
    /\ obs.ticks > 0

NewState == script.characters[Actor.character][obs.command.state]

\* C15: once the animation of a position, show, spawn, hide or change
\* command is gone, by an early finish or by running out, the instance is
\* in the state an immediate finish would have left, which is the terminal
\* state of the command: the destination, visible, hidden, or the new
\* character state.
C15_FinishAndRunOutAgree ==
    (OnStage /\ obs.command.op # "Kill" /\ Actor.animation = None) =>
        /\ Actor = Instance_finish_animation(obs.attached["C"])
        /\ obs.command.op = "Position" => Actor.position = obs.command.position
        /\ obs.command.op \in {"Show", "Spawn"} => Actor.visible
        /\ obs.command.op = "Hide" => ~Actor.visible
        /\ obs.command.op = "Change" =>
               /\ Actor.image = NewState.image
               /\ Actor.scale = NewState.scale
               /\ Actor.centre_position =
                      IF is_some(NewState.centre_position)
                      THEN << R(unwrap(NewState.centre_position)[1]),
                              R(unwrap(NewState.centre_position)[2]) >>
                      ELSE << Frac(script.images[NewState.image].width, 2),
                              Frac(script.images[NewState.image].height, 2) >>

\* a position glide ran out in a frame, with no early finish
C15_Witness ==
    /\ OnStage
    /\ obs.command.op = "Position"
    /\ ~obs.cancelled
    /\ last.event = "tick"
    /\ is_some(last.before["C"].animation)
    /\ Actor.animation = None

Fading ==
    /\ OnStage
    /\ ~obs.cancelled
    /\ obs.command.op = "Hide"
    /\ unwrap(obs.command.animation).name = "fade"

\* C16: while the time ticked since a hide with fade[T] is below T the
\* animation stays attached and the instance visible (once a frame has
\* passed or if it was visible before); from the first frame at which the
\* time reaches T the animation is gone, the instance is hidden and its
\* alpha is 1.
C16_FadeHideEndsAtT ==
    Fading =>
        IF R(obs.elapsed) # Duration(obs.command)
           /\ FLe(R(obs.elapsed), Duration(obs.command))
        THEN /\ is_some(Actor.animation)
             /\ (obs.elapsed > 0 \/ obs.attached["C"].visible) => Actor.visible
        ELSE /\ Actor.animation = None
             /\ ~Actor.visible
             /\ Actor.colour[4] = R(1)

\* the frame that brought the time to T detached the fade
C16_Witness ==
    /\ Fading
    /\ R(obs.elapsed) = Duration(obs.command)
    /\ last.event = "tick"
    /\ is_some(last.before["C"].animation)
    /\ last.before["C"].visible
    /\ last.delta_time < obs.elapsed

\* C17 as stated: once the time ticked since a position with glide[T]
\* reaches T, the instance is at the destination with no animation.
C17_GlideEndsAtT ==
    (/\ OnStage
     /\ ~obs.cancelled
     /\ obs.command.op = "Position"
     /\ FLe(Duration(obs.command), R(obs.elapsed))) =>
        /\ Actor.position = obs.command.position
        /\ Actor.animation = None

\* the dialogue text of the engine
Body == unwrap(game.render.text)

\* the number of characters revealed after the steps taken
Revealed == IF obs.steps < Len(obs.string) THEN obs.steps ELSE Len(obs.string)

\* C18: after k steps on a text created empty over n characters the first
\* min(k, n) characters are revealed, whole characters; the text is
\* finished exactly from the n-th step on, and a step on a finished text
\* changes nothing.
C18_StepRevealsOneCharacter ==
    /\ Body.string = obs.string
    /\ Body.slice.start = 0
    /\ Body.slice.end = str_len(SubSeq(obs.string, 1, Revealed))
    /\ fragment(Body) = SubSeq(obs.string, 1, Revealed)
    /\ is_finished(Body) <=> obs.steps >= Len(obs.string)
    /\ is_finished(Body) => RenderText_step(Body) = Body

\* a text with characters of several bytes, part revealed
C18_Witness ==
    /\ Len(obs.string) = 3
    /\ obs.steps = 2
    /\ obs.string[1] = "hiragana-a"
    /\ obs.string[2] = "e-acute"
    /\ Body.slice.end = 5

ScopeOpens(tokens) ==
    Cardinality({i \in 1..Len(tokens) : tokens[i] = Ok(Token.ScopeOpen)})

ScopeCloses(tokens) ==
    Cardinality({i \in 1..Len(tokens) : tokens[i] = Ok(Token.ScopeClose)})

StreamEnded == last.event = "end"

\* C19: every prefix of the lexer's token stream holds at least as many
\* ScopeOpen as ScopeClose tokens, and the complete stream holds equally
\* many of each, whatever the input: ended inside an indented block or
\* holding lexical errors.
C19_ScopesBalanced ==
    "tokens" \in DOMAIN obs =>
        /\ \A n \in 0..Len(obs.tokens) :
               ScopeOpens(SubSeq(obs.tokens, 1, n))
                   >= ScopeCloses(SubSeq(obs.tokens, 1, n))
        /\ StreamEnded => ScopeOpens(obs.tokens) = ScopeCloses(obs.tokens)

\* the input ends inside a block two levels deep and holds a lexical
\* error, and its stream has ended
C19_Witness ==
    /\ "tokens" \in DOMAIN obs
    /\ StreamEnded
    /\ ScopeOpens(obs.tokens) = 2
    /\ obs.lexer.string[Len(obs.lexer.string)] # "\n"
    /\ \E i \in 1..Len(obs.tokens) : ~obs.tokens[i].ok
    /\ \E i \in 1..Len(obs.tokens) :
           /\ obs.tokens[i] = Ok(Token.ScopeOpen)
           /\ \A j \in i..Len(obs.tokens) : obs.tokens[j] # Ok(Token.Terminator)

ParseEnded == "errors" \in DOMAIN obs /\ last.event = "end"

\* C20: a directive that ends in `with NAME[a1, ..., an]` parses without
\* error and yields its command with an animation declaration named NAME
\* whose arguments are a1..an in source order, `_` absent and a number its
\* value: `position "C" (100,0) with glide[1000]` yields Position with
\* glide [1000], and `glide[1000, 1]` yields [1000, 1].
C20_AnimationDeclarationParsed ==
    \A head \in Directives, declared \in Declarations, ending \in Endings :
        (/\ ParseEnded
         /\ obs.lexer.string = head \o declared.text \o ending)
        => /\ obs.errors = << >>
           /\ script.commands # << >>
           /\ script.commands[1].animation
                  = Some(AnimationDeclaration(declared.name,
                                              declared.arguments))

\* the label a step of the parser declared: the one whose entry changed
Declaring(label) ==
    /\ label \in DOMAIN script'.labels
    /\ label \in DOMAIN script.labels => script'.labels[label] # script.labels[label]

\* a jump to the label, executed on the script as parsed so far, moves the
\* cursor to the given index
JumpsTo(parsed, label, index) ==
    execute_Jump(Command_Jump(label), GameState_new, parsed).state.next_target
        = Some(index)

\* C21: a label declaration adds no command and maps the label to the index
\* the next command parsed will have, whatever the label was mapped to
\* before, so that a jump to it runs the command after the label line
C21_LabelNamesNextCommand ==
    [][("errors" \in DOMAIN obs /\ script'.labels # script.labels) =>
          /\ script'.commands = script.commands
          /\ \E label \in DOMAIN script'.labels :
                 /\ Declaring(label)
                 /\ \A other \in DOMAIN script'.labels \ {label} :
                        /\ other \in DOMAIN script.labels
                        /\ script'.labels[other] = script.labels[other]
                 /\ JumpsTo(script', label, Len(script.commands))]_vars

\* the label of Text_Labels was declared twice and names the second dialogue
C21_Witness ==
    /\ ParseEnded
    /\ obs.lexer.string = Text_Labels
    /\ obs.errors = << >>
    /\ script.labels = [l \in {<< "a" >>} |-> 1]
    /\ command_at(script, 1) = Command_Dialogue(None, << "y" >>)
    /\ JumpsTo(script, << "a" >>, 1)

\* what parse makes of a statement on its own: the errors it reports and
\* the number of commands it yields
ErrorsOf(line) ==
    Only({IF alone.ok THEN << >> ELSE alone.error
          : alone \in {Parser_parse(Lexer_new(line), Script_default, << >>)}})

CommandsOf(line) ==
    Only({IF alone.ok THEN Len(alone.value.commands) ELSE 0
          : alone \in {Parser_parse(Lexer_new(line), Script_default, << >>)}})

RECURSIVE ErrorsOfAll(_)
ErrorsOfAll(lines) ==
    IF lines = << >> THEN << >>
    ELSE ErrorsOf(Head(lines)) \o ErrorsOfAll(Tail(lines))

RECURSIVE CommandsOfAll(_)
CommandsOfAll(lines) ==
    IF lines = << >> THEN 0
    ELSE CommandsOf(Head(lines)) + CommandsOfAll(Tail(lines))

\* C22: an error in one statement never swallows a later statement: when
\* the parse of a source of one statement per line ends, every line has
\* been parsed, so the errors collected are the errors of each line in
\* turn and the commands are as many as the lines yield on their own
C22_ErrorSwallowsNothing ==
    (ParseEnded /\ obs.lexer.string \in LineSources) =>
        /\ obs.errors = ErrorsOfAll(SourceLines(obs.lexer.string))
        /\ Len(script.commands) = CommandsOfAll(SourceLines(obs.lexer.string))

\* the lines of a source that fail when parsed on their own
FailedLines(string) ==
    {i \in 1..Len(SourceLines(string)) :
        ErrorsOf(SourceLines(string)[i]) # << >>}

\* Scenario F without its unknown keyword
Text_ScenarioF_Good ==
    << "s", "t", "a", "g", "e", " ", "\"", "b", "g", ".", "j", "p", "g",
       "\"", "\n", "\"", "H", "i", ".", "\"", "\n" >>

\* C23: parse returns a Script exactly when no statement failed, and
\* otherwise the errors in source order, one for each failed statement;
\* Scenario F reports InvalidCommand with the lines around fnord parsed,
\* and parses to its two commands once the line is taken out
C23_OneErrorPerFailedStatement ==
    ParseEnded =>
        /\ obs.lexer.string \in LineSources =>
               /\ obs.errors = << >> <=> FailedLines(obs.lexer.string) = {}
               /\ Len(obs.errors) = Cardinality(FailedLines(obs.lexer.string))
        /\ obs.lexer.string = Text_ScenarioF =>
               /\ obs.errors = << "InvalidCommand" >>
               /\ script.commands = << Command_Stage(<< "b", "g", ".", "j", "p", "g" >>),
                                       Command_Dialogue(None, << "H", "i", "." >>) >>
        /\ obs.lexer.string = Text_ScenarioF_Good =>
               /\ obs.errors = << >>
               /\ script.commands = << Command_Stage(<< "b", "g", ".", "j", "p", "g" >>),
                                       Command_Dialogue(None, << "H", "i", "." >>) >>

\* C24: parse terminates on every source: the statement loop reaches the
\* end of the input and returns
C24_ParseTerminates == <>ParseEnded

\* the parse of a source that needed an error-recovery skip has returned
C24_Witness ==
    /\ ParseEnded
    /\ obs.errors # << >>
    /\ obs.lexer.characters = Len(obs.lexer.string) + 1

\* the script has a command that refers to a label that is not declared,
\* a path that is not loaded or a character state that does not exist
Undeclared(parsed) ==
    \E i \in 1..Len(parsed.commands) :
        LET command == parsed.commands[i]
        IN  \/ command.op \in {"Jump", "If"}
               /\ command.label \notin DOMAIN parsed.labels
            \/ command.op = "Diverge"
               /\ \E b \in 1..Len(command.branches) :
                      command.branches[b].label \notin DOMAIN parsed.labels
            \/ command.op = "Stage" /\ command.path \notin DOMAIN parsed.images
            \/ command.op \in {"Music", "Sound"}
               /\ command.path \notin parsed.audio
            \/ command.op = "Spawn"
               /\ ~state_resolves(parsed, command.character, command.state)

\* C25: a script with such a reference is rejected when it is loaded: none
\* of its commands executes, and the engine never aborts on the reference
\* in the middle of a run
C25_DanglingRejectedAtLoad ==
    ("trace" \in DOMAIN obs /\ Undeclared(script)) =>
        /\ obs.trace = << >>
        /\ game.status = "aborted" => last.event = "boot"

\* a click enters the run loop with the cursor on the last command and no
\* jump pending
PastEnd ==
    /\ "trace" \in DOMAIN obs
    /\ last'.event = "click"
    /\ last'.loops = 1
    /\ game.state.next_target = None
    /\ game.state.target = Len(script.commands) - 1
    /\ command_at(script, game.state.target).op # "Diverge"

\* C26: when the run loop moves the cursor past the last command the
\* engine aborts: an advance from the last command with no jump pending
\* ends aborted with the cursor at len(commands), and the engine is never
\* running with the cursor out of range
C26_PastEndAborts ==
    /\ []("trace" \in DOMAIN obs /\ game.status = "running"
              => in_range(script, game.state.target))
    /\ [][PastEnd => /\ game'.status = "aborted"
                     /\ game'.state.target = Len(script.commands)
                     /\ last'.ran = << >>]_vars

\* Scenario A after the advance that follows its last dialogue
C26_Witness ==
    /\ "trace" \in DOMAIN obs
    /\ script.commands = ScenarioA
    /\ last.event = "click"
    /\ game.status = "aborted"
    /\ game.state.target = Len(script.commands)
    /\ obs.trace = << 0, 1 >>

\* the positions of the trace at which a command of the given kind ran
RanOp(op) == {i \in 1..Len(obs.trace) : command_at(script, obs.trace[i]).op = op}

\* the Music command executed last
LastMusic ==
    command_at(script,
        obs.trace[CHOOSE i \in RanOp("Music") : \A j \in RanOp("Music") : j <= i])

\* C27: the music voice is the repeating voice started by the most recent
\* Music command, whatever Sound commands ran since, and a Sound command
\* that has just run has added its voice to state.sounds
C27_SoundKeepsMusic ==
    ("trace" \in DOMAIN obs /\ game.status = "running") =>
        /\ game.state.music =
               IF RanOp("Music") = {} THEN None
               ELSE Some(Source(LastMusic.path, TRUE))
        /\ \A i \in 1..Len(last.ran) :
               command_at(script, last.ran[i]).op = "Sound" =>
                   \E v \in 1..Len(game.state.sounds) :
                       game.state.sounds[v] =
                           Source(command_at(script, last.ran[i]).path, FALSE)

\* a click that calls advance, directly or through diverge, and returns
Advanced ==
    /\ "trace" \in DOMAIN obs
    /\ last'.event = "click"
    /\ game'.status = "running"
    /\ in_range(script, game.state.target)
    /\ Current.op = "Diverge" => last'.hit \in 1..Len(game.render.branches)

\* the name of the instance a stage command acts on
InstanceOf(command) ==
    IF command.op = "Spawn"
    THEN IF is_some(command.instance_name) THEN unwrap(command.instance_name)
         ELSE command.character
    ELSE command.instance

\* the commands of the run just made that act on the named instance
Acted(name) ==
    {command_at(script, last'.ran[i]) : i \in
        {j \in 1..Len(last'.ran) :
            /\ command_at(script, last'.ran[j]).op \in
                   {"Spawn", "Change", "Position", "Show", "Hide", "Kill"}
            /\ InstanceOf(command_at(script, last'.ran[j])) = name}}

\* C28: every advance, one that only completes a reveal included, finishes
\* the animations in flight and removes the instances marked to be killed
\* before it does anything else: when it returns, an instance carries an
\* animation only if a command of this call attached one to it, is marked
\* only if a Kill of this call marked it, and no instance marked before
\* the call is left unless this call spawned it anew
C28_AdvanceSettlesStage ==
    [][Advanced =>
        /\ \A name \in DOMAIN game'.render.stage :
               /\ is_some(game'.render.stage[name].animation) =>
                      \E command \in Acted(name) : is_some(command.animation)
               /\ game'.render.stage[name].tbk =>
                      \E command \in Acted(name) : command.op = "Kill"
        /\ \A name \in DOMAIN game.render.stage :
               game.render.stage[name].tbk =>
                   \/ name \notin DOMAIN game'.render.stage
                   \/ \E command \in Acted(name) : command.op = "Spawn"]_vars

\* Staged after the click that only completes the reveal of "Bye": the
\* killed instance C and the animations of the run before are gone
C28_Witness ==
    /\ "trace" \in DOMAIN obs
    /\ script.commands = Staged
    /\ game.status = "running"
    /\ last.event = "click" /\ last.ran = << >> /\ last.loops = 0
    /\ game.state.target = 16
    /\ DOMAIN game.render.stage = {"D"}
    /\ game.render.stage["D"].animation = None

\* the labels of a sequence of branches or of branch buttons, in order
LabelsOf(branches) == [i \in 1..Len(branches) |-> branches[i].label]

\* the run just made executed a Diverge
DivergeRan ==
    \E i \in 1..Len(last'.ran) : command_at(script, last'.ran[i]).op = "Diverge"

\* C29: branch buttons exist only while a divergence is pending: whenever
\* render.branches is not empty the cursor is on a Diverge whose branch
\* labels are those of the buttons, and once a choice has emptied the
\* buttons they stay empty until a Diverge executes
C29_BranchesOnlyWhilePending ==
    /\ []("trace" \in DOMAIN obs /\ game.render.branches # << >> =>
              /\ in_range(script, game.state.target)
              /\ Current.op = "Diverge"
              /\ LabelsOf(Current.branches) = LabelsOf(game.render.branches))
    /\ [][("trace" \in DOMAIN obs /\ game'.render.branches # << >>
              /\ (game.render.branches = << >> \/ Chose)) => DivergeRan]_vars

\* Scenario B after Left was chosen: the buttons are gone
C29_Witness ==
    /\ "trace" \in DOMAIN obs
    /\ script.commands[2].op = "Diverge"
    /\ game.status = "running"
    /\ last.event = "click" /\ last.hit = 1
    /\ game.history.divergences = << "l-left" >>
    /\ game.render.branches = << >>
    /\ Current.op = "Dialogue"

\* the Diverge commands executed so far, in order
DivergesRan ==
    SelectSeq(obs.trace, LAMBDA t : command_at(script, t).op = "Diverge")

\* C30: history.divergences has one entry for each Diverge passed, in the
\* order they were passed: as many entries as Diverge commands executed,
\* less the one still pending, the i-th entry being a branch label of the
\* i-th Diverge executed
C30_OneDivergencePerDiverge ==
    ("trace" \in DOMAIN obs /\ game.status = "running") =>
        /\ Len(game.history.divergences) =
               Len(DivergesRan) - (IF PendingDiverge THEN 1 ELSE 0)
        /\ \A i \in 1..Len(game.history.divergences) :
               \E b \in 1..Len(command_at(script, DivergesRan[i]).branches) :
                   command_at(script, DivergesRan[i]).branches[b].label
                       = game.history.divergences[i]

\* Nested after two choices, the second made at the Diverge the first led to
C30_Witness ==
    /\ "trace" \in DOMAIN obs
    /\ game.status = "running"
    /\ last.event = "click" /\ last.hit = 2
    /\ game.history.divergences = << "a", "c" >>
    /\ Len(DivergesRan) = 2
    /\ ~PendingDiverge

\* the instance carries the glide of the last command, and a frame has
\* initialised it
Gliding ==
    /\ "command" \in DOMAIN obs
    /\ OnStage
    /\ is_some(Actor.animation)
    /\ unwrap(Actor.animation).type = "GlideVisibility"
    /\ unwrap(Actor.animation).initialised

\* the position the glide of the last command found the instance at
GlideOrigin == unwrap(Actor.animation).position

\* the off-screen point of the glide of the last command
GlideOffScreen ==
    << off_screen_x(glide_direction(unwrap(obs.command.animation).arguments),
                    create_parameter(Actor), script.images),
       GlideOrigin[2] >>

\* the last command attached a glide and an advance has just finished it
GlideFinished ==
    /\ "command" \in DOMAIN obs
    /\ game.status = "running"
    /\ last.event = "finish"
    /\ "C" \in DOMAIN last.before
    /\ is_some(last.before["C"].animation)
    /\ unwrap(last.before["C"].animation).type = "GlideVisibility"

\* C31: the glide of a show or a spawn moves the instance from off-screen
\* to the position it had and ends visible; the glide of a hide or a kill
\* moves it from the position it has towards an off-screen destination and
\* ends invisible for hide, removed for kill
C31_GlideDirections ==
    /\ Gliding =>
           IF obs.command.op \in {"Show", "Spawn"}
           THEN unwrap(Actor.animation).glide_move.destination = GlideOrigin
           ELSE /\ unwrap(Actor.animation).glide_move.destination = GlideOffScreen
                /\ GlideOffScreen # GlideOrigin
    /\ GlideFinished =>
           CASE obs.command.op \in {"Show", "Spawn"} -> OnStage /\ Actor.visible
             [] obs.command.op = "Hide" -> OnStage /\ ~Actor.visible
             [] obs.command.op = "Kill" -> "C" \notin DOMAIN game.render.stage

\* the last command attached a flip and only frames have passed since
Flipping ==
    /\ "command" \in DOMAIN obs
    /\ obs.command.op = "Change"
    /\ is_some(obs.command.animation)
    /\ OnStage
    /\ ~obs.cancelled

\* the period of the flip, in ms
FlipPeriod == Duration(obs.command).n

\* C32: a flip with period P keeps the old image while the time ticked is
\* below P, shows the new image and centre from the first frame at which
\* the time ticked reaches P and ever after, is reported finished only when
\* the time ticked has reached 2P, and leaves the image, centre and scale
\* of the new state
C32_FlipSwitchesAtP ==
    Flipping =>
        /\ obs.elapsed < FlipPeriod =>
               /\ is_some(Actor.animation)
               /\ Actor.image = obs.attached["C"].image
               /\ Actor.centre_position = obs.attached["C"].centre_position
        /\ obs.elapsed >= FlipPeriod =>
               /\ Actor.image = NewState.image
               /\ Actor.centre_position = centre_of(script, NewState)
        /\ Actor.animation = None =>
               /\ obs.elapsed >= 2 * FlipPeriod
               /\ Actor.image = NewState.image
               /\ Actor.centre_position = centre_of(script, NewState)
               /\ Actor.scale = NewState.scale

\* a flip from Happy to Sad that frames alone have brought to its end
C32_Witness ==
    /\ Flipping
    /\ obs.attaches = 0
    /\ obs.attached["C"].image = "/happy.png"
    /\ last.event = "tick"
    /\ is_some(last.before["C"].animation)
    /\ Actor.animation = None
    /\ Actor.image = "/sad.png"

\* the byte offsets at which a character of the string starts or ends
Boundaries(string) == {str_len(SubSeq(string, 1, k)) : k \in 0..Len(string)}

\* the run just made executed a Dialogue
DialogueRan ==
    \E i \in 1..Len(last'.ran) : command_at(script, last'.ran[i]).op = "Dialogue"

\* C33: under frames and advances in any order the end of the reveal is
\* on a character boundary of the dialogue text, and from one state to the
\* next it does not decrease and the text stays the same unless a Dialogue
\* command was executed in between
C33_RevealEndMonotone ==
    /\ []("trace" \in DOMAIN obs /\ is_some(game.render.text) =>
              Body.slice.end \in Boundaries(Body.string))
    /\ [][("trace" \in DOMAIN obs /\ is_some(game.render.text)
              /\ is_some(game'.render.text) /\ ~DialogueRan) =>
                 /\ unwrap(game'.render.text).string = Body.string
                 /\ unwrap(game'.render.text).slice.end >= Body.slice.end]_vars

\* a frame has revealed the two accented characters of a dialogue, whole
C33_Witness ==
    /\ "trace" \in DOMAIN obs
    /\ last.event = "update"
    /\ is_some(game.render.text)
    /\ Body.string = Accented
    /\ Body.slice.end = 5
    /\ ~is_finished(Body)

ScopeTokens == {Ok(Token.ScopeOpen), Ok(Token.ScopeClose)}

\* the index of the first character of the line that holds index at
LineStart(string, at) ==
    CHOOSE start \in 1..at :
        /\ start = 1 \/ string[start - 1] = "\n"
        /\ \A i \in start..(at - 1) : string[i] # "\n"

\* the number of TAB characters the line starts with
RECURSIVE TabsFrom(_, _)
TabsFrom(string, at) ==
    IF at <= Len(string) /\ string[at] = "\t" THEN 1 + TabsFrom(string, at + 1)
    ELSE 0

\* the line has a character other than its leading TABs and its newline
NonBlank(string, start) ==
    /\ start + TabsFrom(string, start) <= Len(string)
    /\ string[start + TabsFrom(string, start)] # "\n"

\* the lexer has just yielded a token of a line, or an error in it
LineToken ==
    /\ "tokens" \in DOMAIN obs
    /\ last.event = "token"
    /\ obs.tokens[Len(obs.tokens)] \notin ScopeTokens

\* the line the token just yielded ends in
TokenLine == LineStart(obs.lexer.string, obs.lexer.characters - 1)

StripBlank(string) ==
    Joined(SelectSeq(SourceLines(string),
                     LAMBDA line : \E i \in 1..Len(line) :
                                       line[i] \notin {" ", "\t", "\n"}))

\* what parse has returned: the script, or the errors
Returned == IF obs.errors = << >> THEN Ok(script) ELSE Err(obs.errors)

\* C35: lines of whitespace only are ignored: parse returns for a source
\* what it returns for the source without them, the same commands and
\* labels or the same errors, so such a line in a diverge block does not
\* close the block
C35_BlankLinesIgnored ==
    ParseEnded =>
        Returned = Parser_parse(Lexer_new(StripBlank(obs.lexer.string)),
                                Script_default, << >>)

\* the end of the first line of the source: its newline, or past the input
LineEnd(string) ==
    Only({IF ends = {} THEN Len(string) + 1
          ELSE CHOOSE i \in ends : \A j \in ends : i <= j
          : ends \in {{i \in 1..Len(string) : string[i] = "\n"}}})

\* the backslashes in a row right before a position of a literal opened at 1
Backslashes(string, at) ==
    CHOOSE k \in 0..at - 2 :
        /\ \A j \in at - k..at - 1 : string[j] = "\\"
        /\ k < at - 2 => string[at - k - 1] # "\\"

\* the quotes of the first line that no backslash escapes
Closings(string) ==
    {i \in 2..LineEnd(string) - 1 :
        string[i] = "\"" /\ Backslashes(string, i) % 2 = 0}

\* the text with each backslash-n a newline and each backslash-quote a quote
RECURSIVE Unescaped(_)
Unescaped(text) ==
    IF Len(text) < 2 THEN text
    ELSE IF SubSeq(text, 1, 2) = << "\\", "n" >>
         THEN << "\n" >> \o Unescaped(SubSeq(text, 3, Len(text)))
    ELSE IF SubSeq(text, 1, 2) = << "\\", "\"" >>
         THEN << "\"" >> \o Unescaped(SubSeq(text, 3, Len(text)))
    ELSE << Head(text) >> \o Unescaped(Tail(text))

\* a source that opens with a string literal, its first item yielded
Literal ==
    /\ "tokens" \in DOMAIN obs
    /\ obs.lexer.string # << >>
    /\ obs.lexer.string[1] = "\""
    /\ obs.tokens # << >>

\* C36: a string literal yields the text between its quotes with
\* backslash-n a newline and backslash-quote a quote, the closing quote
\* being the first one no backslash escapes; a literal not closed before
\* the end of its line or of the input yields UnmatchedQuote
C36_StringLiterals ==
    Literal =>
        obs.tokens[1]
            = IF Closings(obs.lexer.string) = {}
              THEN Err("UnmatchedQuote")
              ELSE Ok(Token_String(Unescaped(
                       SubSeq(obs.lexer.string, 2,
                              (CHOOSE c \in Closings(obs.lexer.string) :
                                   \A d \in Closings(obs.lexer.string) :
                                       c <= d) - 1))))

\* C37: after a successful parse every label's target is an index into
\* commands, also that of a label declared after the last command
C37_LabelTargetsInRange ==
    (ParseEnded /\ obs.errors = << >>) =>
        \A label \in DOMAIN script.labels :
            script.labels[label] < Len(script.commands)

\* C38: loading the history of a live run leaves the engine with that
\* history: the replay ends without a panic (it needed no divergence the
\* history lacks and left none over), execution_count is the loaded count
\* and divergences is the loaded list in the same order
C38_ReplayKeepsHistory ==
    [][("trace" \in DOMAIN obs /\ last'.event = "reload") =>
           /\ game'.status = "running"
           /\ game'.history.execution_count = game.history.execution_count
           /\ game'.history.divergences = game.history.divergences]_vars

\* a reload of a run that chose two different branches
C38_Witness ==
    /\ "trace" \in DOMAIN obs
    /\ Running
    /\ last.event = "reload"
    /\ Len(game.history.divergences) = 2
    /\ game.history.divergences[1] # game.history.divergences[2]
    /\ game.history.execution_count > 3

\* the instance was killed with an animation and not spawned again since
KilledBefore(name) ==
    \E i \in 1..Len(obs.trace) :
        /\ Ran(i).op = "Kill"
        /\ InstanceOf(Ran(i)) = name
        /\ is_some(Ran(i).animation)
        /\ \A j \in (i + 1)..Len(obs.trace) :
               ~(Ran(j).op = "Spawn" /\ InstanceOf(Ran(j)) = name)

\* the only commands of the run just made that act on the instance are
\* Changes without an animation
OnlyChanged(name) ==
    /\ Acted(name) # {}
    /\ \A command \in Acted(name) :
           command.op = "Change" /\ command.animation = None

\* C39: a Change without an animation leaves the instance's position,
\* visibility and pending kill as they were, and an instance killed with
\* an animation is gone from the stage after the next advance
C39_ChangeKeepsVisibilityAndKill ==
    [][Advanced =>
        /\ \A name \in DOMAIN Stage_finish_animation(game.render.stage) :
               OnlyChanged(name) =>
                   /\ name \in DOMAIN game'.render.stage
                   /\ game'.render.stage[name].position
                          = Stage_finish_animation(game.render.stage)[name].position
                   /\ game'.render.stage[name].visible
                          = Stage_finish_animation(game.render.stage)[name].visible
                   /\ game'.render.stage[name].tbk
                          = Stage_finish_animation(game.render.stage)[name].tbk
        /\ \A name \in DOMAIN game.render.stage :
               (KilledBefore(name) /\ ~\E command \in Acted(name) : command.op = "Spawn")
                   => name \notin DOMAIN game'.render.stage]_vars

\* the engine waits for input with a command left to run: the cursor is in
\* range and so is the command an advance would run next
Waiting ==
    /\ "trace" \in DOMAIN obs
    /\ Running
    /\ in_range(script, game.state.target)
    /\ in_range(script, IF is_some(game.state.next_target)
                        THEN unwrap(game.state.next_target)
                        ELSE Target_next(game.state.target))

\* what the click does: it completes a reveal, or runs a command (a chosen
\* branch runs the command at its label)
Progress(hit) ==
    \E outcome \in {mouse_button_down_event(game, script, hit)} :
        \/ outcome.ran # << >>
        \/ /\ Revealing
           /\ is_finished(unwrap(outcome.game.render.text))

\* C40: the engine is never stuck: whenever it waits for input with the
\* cursor in range some click completes a reveal, runs a command or
\* chooses a branch; a script whose first command is a Diverge has its
\* branch buttons after boot with an empty history
C40_NeverStuck ==
    /\ Waiting => \E hit \in 0..Len(game.render.branches) : Progress(hit)
    /\ ("trace" \in DOMAIN obs /\ last.event = "boot"
           /\ command_at(script, Target_default).op = "Diverge") =>
              LabelsOf(game.render.branches)
                  = LabelsOf(command_at(script, Target_default).branches)

===========================================================================
